---- MODULE Spec2Model ----
(***************************************************************************)
(* Faceted search controller of the job-postings browser.                  *)
(*                                                                         *)
(* Two page components implement the same controller:                      *)
(*   "explorer"  apps/web_ui/src/app/jobs/page.tsx : single-select facet   *)
(*               dropdowns, debounced keyword box with Smart-Match, and    *)
(*               the overlay natural-language merge;                       *)
(*   "classic"   unnamed/part_001 : multi-select checkboxes, independent   *)
(*               city/country fields and the overwrite-all merge.          *)
(* Strings are TLA+ strings; a character of s is SubSeq(s, i, i).          *)
(* The state variables hold what the last render of the component         *)
(* committed: what the page shows, what its controls test and what the     *)
(* closures of its handlers read.  A user event is handled with the render *)
(* of its setters and the effects of that render in one step.  Setters     *)
(* called from a timeout, a promise continuation or an effect are queued;  *)
(* React commits them in a later task (Render), and other events can be    *)
(* handled before it.                                                      *)
(***************************************************************************)
EXTENDS Integers, Sequences, FiniteSets, TLC

(***************************************************************************)
(* Bounds of the model.                                                    *)
(***************************************************************************)
\* user events (keystrokes, clicks, submissions) handled in one session
MaxUserEvents ==
  3
\* listing requests awaiting their response at the same time
MaxInFlight ==
  2

(***************************************************************************)
(* Program constants.                                                      *)
(***************************************************************************)
PageSize ==
  20
MaxVisible ==
  5

(***************************************************************************)
(* Facet vocabulary.                                                       *)
(***************************************************************************)
FILTER_OPTIONS_seniority ==
  << [label |-> "Intern", value |-> "intern"],
     [label |-> "Junior", value |-> "junior"],
     [label |-> "Mid-Level", value |-> "mid"],
     [label |-> "Senior", value |-> "senior"],
     [label |-> "Staff", value |-> "staff"],
     [label |-> "Principal", value |-> "principal"],
     [label |-> "Manager", value |-> "manager"],
     [label |-> "Director", value |-> "director"],
     [label |-> "VP", value |-> "vp"],
     [label |-> "CXO", value |-> "cxo"] >>

FILTER_OPTIONS_functions ==
  << [label |-> "Engineering", value |-> "engineering"],
     [label |-> "Product Marketing", value |-> "product_marketing"],
     [label |-> "Sales Operations", value |-> "sales_ops"],
     [label |-> "Operations", value |-> "operations"],
     [label |-> "Solutions Engineering", value |-> "solutions_engineering"],
     [label |-> "HR", value |-> "hr"],
     [label |-> "Security", value |-> "security"],
     [label |-> "GTM Engineering", value |-> "gtm_engineering"],
     [label |-> "Customer Success", value |-> "customer_success"],
     [label |-> "Finance", value |-> "finance"],
     [label |-> "IT", value |-> "it"],
     [label |-> "Legal", value |-> "legal"],
     [label |-> "Data", value |-> "data"],
     [label |-> "RevOps", value |-> "revops"],
     [label |-> "Marketing", value |-> "marketing"],
     [label |-> "Sales", value |-> "sales"] >>

FILTER_OPTIONS_remote ==
  << [label |-> "Remote", value |-> "remote"],
     [label |-> "Hybrid", value |-> "hybrid"],
     [label |-> "On-site", value |-> "onsite"] >>

SENIORITY_OPTIONS ==
  << "intern", "junior", "mid", "senior", "staff", "principal", "manager", "director", "vp", "cxo" >>

FUNCTION_OPTIONS ==
  << "sales", "marketing", "engineering", "data", "product_marketing", "customer_success", "hr", "finance", "operations", "other" >>

REMOTE_OPTIONS ==
  << "remote", "hybrid", "onsite" >>

(***************************************************************************)
(* String primitives (String.prototype.toLowerCase, trim, split,           *)
(* Number.prototype.toString) on the characters the model uses.            *)
(***************************************************************************)
UpperChars ==
  "ABCDEFGHIJKLMNOPQRSTUVWXYZ"
LowerChars ==
  "abcdefghijklmnopqrstuvwxyz"
DigitChars ==
  "0123456789"
WhiteSpace ==
  {" ", "\t", "\n"}

CharAt(s, i) ==
  SubSeq(s, i, i)

\* the lower-case letter of each upper-case letter
LowerCaseOf ==
  [c \in { CharAt(UpperChars, i) : i \in 1..Len(UpperChars) } |->
     CharAt(LowerChars, CHOOSE i \in 1..Len(UpperChars) : CharAt(UpperChars, i) = c)]

LowerChar(c) ==
  IF c \in DOMAIN LowerCaseOf THEN LowerCaseOf[c] ELSE c

RECURSIVE ToLowerCase(_)
ToLowerCase(s) ==
  IF s = "" THEN "" ELSE LowerChar(Head(s)) \o ToLowerCase(Tail(s))

RECURSIVE TrimStart(_)
TrimStart(s) ==
  IF s # "" /\ Head(s) \in WhiteSpace THEN TrimStart(Tail(s)) ELSE s

RECURSIVE TrimEnd(_)
TrimEnd(s) ==
  IF s # "" /\ CharAt(s, Len(s)) \in WhiteSpace
  THEN TrimEnd(SubSeq(s, 1, Len(s) - 1))
  ELSE s

Trim(s) ==
  TrimEnd(TrimStart(s))

\* s.split(','): the sequence of all comma-separated parts
RECURSIVE SplitFrom(_, _, _)
SplitFrom(s, start, i) ==
  IF i > Len(s) THEN << SubSeq(s, start, Len(s)) >>
  ELSE IF CharAt(s, i) = ","
  THEN << SubSeq(s, start, i - 1) >> \o SplitFrom(s, i + 1, i + 1)
  ELSE SplitFrom(s, start, i + 1)

Split(s) ==
  SplitFrom(s, 1, 1)

\* Number.prototype.toString / String(n) of a non-negative integer
RECURSIVE NumToString(_)
NumToString(n) ==
  IF n < 10 THEN CharAt(DigitChars, n + 1)
  ELSE NumToString(n \div 10) \o CharAt(DigitChars, (n % 10) + 1)

\* Math.ceil(a / b) for a >= 0, b > 0
CeilDiv(a, b) ==
  (a + b - 1) \div b

(***************************************************************************)
(* Inputs: what the user types or picks, and what the remote services      *)
(* answer.                                                                 *)
(***************************************************************************)
\* keyword box contents
TextInputs ==
  {"", " Sales ", "rust"}
\* natural-language box contents
Utterances ==
  {" ", "senior roles"}
\* dropdown options / checkboxes the user clicks
SeniorityPicks ==
  {"senior"}
FunctionPicks ==
  {"sales"}
RemotePicks ==
  {"remote"}
\* names delivered by GET /jobs/stats/locations
LocationOptions ==
  {"Austin, TX"}
SalaryInputs ==
  {"", "90000"}
CityInputs ==
  {"", "NYC"}
CountryInputs ==
  {"", "US"}

\* JS undefined, for a list and for a number
Undefined ==
  << "undefined" >>
UndefinedNum ==
  -1

\* bodies of GET /jobs
JobsBodies ==
  { [jobs |-> << "j1", "j2" >>, total |-> 37],
    [jobs |-> << "j3" >>, total |-> 1] }
\* JSON body of an error answer (no jobs, no total, no filters)
ErrorBody ==
  [detail |-> "Internal Server Error"]

\* a response: the promise rejects (transport error), or an HTTP answer with
\* its ok flag, whether the body parses as JSON, and the parsed body
Reject ==
  [kind |-> "reject"]
Http(ok, json, body) ==
  [kind |-> "http", ok |-> ok, json |-> json, body |-> body]

JobsResponses ==
  { Reject, Http(FALSE, FALSE, ErrorBody), Http(FALSE, TRUE, ErrorBody) }
    \cup { Http(TRUE, TRUE, b) : b \in JobsBodies }

\* bodies of POST /search/parse; the lists and the location term are what
\* the parser sends: an empty-string element and the label of a vocabulary
\* entry are among them
ParseBodies ==
  { [filters |-> [seniority |-> << "senior" >>, city |-> "NYC"],
     explanation |-> "Senior roles in NYC"],
    [filters |-> [q |-> "rust"], explanation |-> ""],
    [filters |-> [q |-> "rust", job_function |-> << "sales", "marketing" >>,
                  salary_min |-> 150000, location_city |-> "Austin",
                  location_state |-> "TX", country |-> "US"],
     explanation |-> "Senior roles in NYC"],
    [filters |-> [q |-> "go", seniority |-> << >>, salary_min |-> 0,
                  city |-> "", location_city |-> "Remote"],
     explanation |-> "Senior roles in NYC"],
    [filters |-> [remote_type |-> << "" >>], explanation |-> "Remote roles"] }

ParseResponses ==
  { Reject, Http(FALSE, FALSE, ErrorBody), Http(FALSE, TRUE, ErrorBody),
    Http(TRUE, TRUE, ErrorBody) }
    \cup { Http(TRUE, TRUE, b) : b \in ParseBodies }

\* property access on a parsed object: o.k, with "absent" for undefined
Has(o, k) ==
  k \in DOMAIN o

(***************************************************************************)
(* State.                                                                  *)
(***************************************************************************)
VARIABLES
  variant,          \* which page component runs: "explorer" or "classic"
  jobs, total,      \* displayed result page and count
  loading,
  page,
  textSearch,       \* freeText
  debouncedSearch,  \* explorer: useDebounce(textSearch, 500)
  timerPending,     \* explorer: the debounce timeout is armed
  timerValue,       \* explorer: the raw text the armed timeout will set
  effects,          \* effects of the last render that have not run yet
  queued,           \* setter calls waiting for React's next render: the
                    \* last value given to each state they name
  naturalQuery,
  seniority, jobFunction, remoteType,
  location,         \* explorer: composite "City, State"
  salaryMin, salaryMax,
  city, country,    \* classic
  selectedSkills,   \* explorer
  isParsing,        \* isParsing (explorer) / parsing (classic)
  parseExplanation,
  inFlight,         \* listing requests awaiting their response, oldest
                    \* first: [params, superseded], superseded once the
                    \* response of a request issued later has been displayed
  parsesInFlight,   \* parse requests awaiting their response
  userEvents,       \* user events handled so far
  promoted,         \* history: the facet assignment of the last Smart-Match
                    \* promotion, no assignment before the first
  retyped           \* history: a text has been put in the search box
                    \* after that promotion

vars ==
  << variant, jobs, total, loading, page, textSearch, debouncedSearch,
     timerPending, timerValue, effects, queued, naturalQuery, seniority,
     jobFunction, remoteType, location, salaryMin, salaryMax, city, country,
     selectedSkills, isParsing, parseExplanation, inFlight, parsesInFlight,
     userEvents, promoted, retyped >>

Explorer ==
  "explorer"
Classic ==
  "classic"
Companies ==
  "companies"

\* the Filter State as one record
Filters ==
  [ textSearch |-> textSearch, seniority |-> seniority,
    jobFunction |-> jobFunction, remoteType |-> remoteType,
    location |-> location, salaryMin |-> salaryMin, salaryMax |-> salaryMax,
    city |-> city, country |-> country, selectedSkills |-> selectedSkills,
    page |-> page ]

\* the state of the last render, by the names of the useState variables
\* (debouncedSearch is the state inside useDebounce)
Rendered ==
  [ jobs |-> jobs, total |-> total, loading |-> loading, page |-> page,
    textSearch |-> textSearch, debouncedSearch |-> debouncedSearch,
    naturalQuery |-> naturalQuery, seniority |-> seniority,
    jobFunction |-> jobFunction, remoteType |-> remoteType,
    location |-> location, salaryMin |-> salaryMin, salaryMax |-> salaryMax,
    city |-> city, country |-> country, selectedSkills |-> selectedSkills,
    isParsing |-> isParsing, parseExplanation |-> parseExplanation ]

\* the states that hold an array and are dependencies of fetchJobs: a setter
\* call gives them a new identity whatever the elements
ArrayState ==
  {"seniority", "jobFunction", "remoteType", "selectedSkills"}

\* no setter call
NoUpdates ==
  [n \in {} |-> TRUE]

\* setter calls b after setter calls (or state) a: the later value of each name
Over(a, b) ==
  [n \in DOMAIN a \cup DOMAIN b |-> IF n \in DOMAIN b THEN b[n] ELSE a[n]]

\* updates a without those of the names in S
Drop(a, S) ==
  [n \in DOMAIN a \ S |-> a[n]]

\* the updates waiting for a render after setter calls u were added to the
\* waiting updates q, for a component whose last render committed base: a
\* string, number, flag or result list set to the value it has in base
\* leaves nothing to render
Pending(base, q, u) ==
  LET all == Over(q, u)
  IN  [n \in { m \in DOMAIN all : m \in ArrayState \/ all[m] # base[m] } |-> all[n]]

\* the state after React has rendered the waiting updates
Latest ==
  Over(Rendered, queued)

SetFilters(f) ==
  /\ textSearch' = f.textSearch
  /\ seniority' = f.seniority
  /\ jobFunction' = f.jobFunction
  /\ remoteType' = f.remoteType
  /\ location' = f.location
  /\ salaryMin' = f.salaryMin
  /\ salaryMax' = f.salaryMax
  /\ city' = f.city
  /\ country' = f.country
  /\ selectedSkills' = f.selectedSkills
  /\ page' = f.page

\* a render commits state st
Commit(st) ==
  /\ SetFilters(st)
  /\ jobs' = st.jobs
  /\ total' = st.total
  /\ loading' = st.loading
  /\ debouncedSearch' = st.debouncedSearch
  /\ naturalQuery' = st.naturalQuery
  /\ isParsing' = st.isParsing
  /\ parseExplanation' = st.parseExplanation

(***************************************************************************)
(* Query serializer: the URLSearchParams built by fetchJobs, as the        *)
(* sequence of its (key, value) entries.                                   *)
(***************************************************************************)
Param(k, v) ==
  << << k, v >> >>

\* if (v) params.set(k, v)
Opt(cond, k, v) ==
  IF cond THEN Param(k, v) ELSE << >>

\* Each appending the elements last to first
Each_Reversed(k, values) ==
  [i \in 1..Len(values) |-> << k, values[Len(values) + 1 - i] >>]

\* values.forEach(v => params.append(k, v))
Each(k, values) ==
  [i \in 1..Len(values) |-> << k, values[i] >>]

\* const [city, state] = location.split(',').map(s => s.trim()) and the two
\* params.set calls; the comprehensions bind each intermediate value once
LocationParams(locationValue) ==
  CHOOSE params \in
    { LET cityPart == parts[1]
          statePart == IF Len(parts) >= 2 THEN parts[2] ELSE ""
      IN  Opt(cityPart # "", "city", cityPart)
          \o Opt(statePart # "", "state", statePart) :
        parts \in { [i \in 1..Len(split) |-> Trim(split[i])] :
                      split \in { Split(loc) : loc \in {locationValue} } } } : TRUE

\* SerializeExplorer sending each skill's id
SerializeExplorer_SkillIds(f, q) ==
  Param("page", NumToString(f.page))
  \o Param("page_size", "20")
  \o Opt(q # "", "q", q)
  \o Each("seniority", f.seniority)
  \o Each("function", f.jobFunction)
  \o Each("remote_type", f.remoteType)
  \o Opt(f.salaryMin # "", "salary_min", f.salaryMin)
  \o Opt(f.salaryMax # "", "salary_max", f.salaryMax)
  \o (IF f.location # "" THEN LocationParams(f.location) ELSE << >>)
  \o Each("skill", [i \in 1..Len(f.selectedSkills) |-> f.selectedSkills[i].id])

\* explorer: q is the debounced text; location is split on commas and the
\* first two trimmed parts are city and state
SerializeExplorer(f, q) ==
  Param("page", NumToString(f.page))
  \o Param("page_size", "20")
  \o Opt(q # "", "q", q)
  \o Each("seniority", f.seniority)
  \o Each("function", f.jobFunction)
  \o Each("remote_type", f.remoteType)
  \o Opt(f.salaryMin # "", "salary_min", f.salaryMin)
  \o Opt(f.salaryMax # "", "salary_max", f.salaryMax)
  \o (IF f.location # "" THEN LocationParams(f.location) ELSE << >>)
  \o Each("skill", [i \in 1..Len(f.selectedSkills) |-> f.selectedSkills[i].name])

\* classic: q is the raw text; independent city and country
SerializeClassic(f) ==
  Param("page", NumToString(f.page))
  \o Param("page_size", NumToString(PageSize))
  \o Opt(f.textSearch # "", "q", f.textSearch)
  \o Each("seniority", f.seniority)
  \o Each("function", f.jobFunction)
  \o Each("remote_type", f.remoteType)
  \o Opt(f.salaryMin # "", "salary_min", f.salaryMin)
  \o Opt(f.salaryMax # "", "salary_max", f.salaryMax)
  \o Opt(f.city # "", "city", f.city)
  \o Opt(f.country # "", "country", f.country)

\* the parameters fetchJobs builds in the current render
Serialize ==
  IF variant = Explorer
  THEN SerializeExplorer(Filters, debouncedSearch)
  ELSE SerializeClassic(Filters)

(***************************************************************************)
(* Smart-Match: findMatch over one vocabulary, and the three tests in      *)
(* order functions, seniority, remote.                                     *)
(***************************************************************************)
\* the options with label and value lower-cased, as findMatch compares them
LowerOptions(options) ==
  [i \in 1..Len(options) |->
     [label |-> ToLowerCase(options[i].label),
      value |-> ToLowerCase(options[i].value)]]

LoweredFunctions ==
  LowerOptions(FILTER_OPTIONS_functions)
LoweredSeniority ==
  LowerOptions(FILTER_OPTIONS_seniority)
LoweredRemote ==
  LowerOptions(FILTER_OPTIONS_remote)

\* options.find(o => o.label.toLowerCase() === term || o.value.toLowerCase() === term)
\* as a sequence of zero or one option
FindMatch(options, lowered, term) ==
  LET hits == { i \in 1..Len(options) :
                  lowered[i].label = term \/ lowered[i].value = term }
  IN  IF hits = {} THEN << >>
      ELSE << options[CHOOSE i \in hits : \A j \in hits : i <= j] >>

\* SmartMatch going back to page 1 and dropping the location on a match
SmartMatch_ResetsOthers(debounced) ==
  LET term == Trim(ToLowerCase(debounced))
      funcMatch == FindMatch(FILTER_OPTIONS_functions, LoweredFunctions, term)
      senMatch == FindMatch(FILTER_OPTIONS_seniority, LoweredSeniority, term)
      remMatch == FindMatch(FILTER_OPTIONS_remote, LoweredRemote, term)
  IN  IF debounced = "" THEN NoUpdates
      ELSE IF funcMatch # << >>
      THEN [jobFunction |-> << funcMatch[1].value >>, textSearch |-> "",
            page |-> 1, location |-> ""]
      ELSE IF senMatch # << >>
      THEN [seniority |-> << senMatch[1].value >>, textSearch |-> "",
            page |-> 1, location |-> ""]
      ELSE IF remMatch # << >>
      THEN [remoteType |-> << remMatch[1].value >>, textSearch |-> "",
            page |-> 1, location |-> ""]
      ELSE NoUpdates

\* SmartMatch with the setTextSearch('') calls left out
SmartMatch_KeepsText(debounced) ==
  LET term == Trim(ToLowerCase(debounced))
      funcMatch == FindMatch(FILTER_OPTIONS_functions, LoweredFunctions, term)
      senMatch == FindMatch(FILTER_OPTIONS_seniority, LoweredSeniority, term)
      remMatch == FindMatch(FILTER_OPTIONS_remote, LoweredRemote, term)
  IN  IF debounced = "" THEN NoUpdates
      ELSE IF funcMatch # << >>
      THEN [jobFunction |-> << funcMatch[1].value >>]
      ELSE IF senMatch # << >>
      THEN [seniority |-> << senMatch[1].value >>]
      ELSE IF remMatch # << >>
      THEN [remoteType |-> << remMatch[1].value >>]
      ELSE NoUpdates

\* SmartMatch clearing the search box also when no vocabulary has the term
SmartMatch_ClearsUnmatched(debounced) ==
  LET term == Trim(ToLowerCase(debounced))
      funcMatch == FindMatch(FILTER_OPTIONS_functions, LoweredFunctions, term)
      senMatch == FindMatch(FILTER_OPTIONS_seniority, LoweredSeniority, term)
      remMatch == FindMatch(FILTER_OPTIONS_remote, LoweredRemote, term)
  IN  IF debounced = "" THEN NoUpdates
      ELSE IF funcMatch # << >>
      THEN [jobFunction |-> << funcMatch[1].value >>, textSearch |-> ""]
      ELSE IF senMatch # << >>
      THEN [seniority |-> << senMatch[1].value >>, textSearch |-> ""]
      ELSE IF remMatch # << >>
      THEN [remoteType |-> << remMatch[1].value >>, textSearch |-> ""]
      ELSE [textSearch |-> ""]

\* the setter calls of the Smart Search effect for a debounced value
SmartMatch(debounced) ==
  LET term == Trim(ToLowerCase(debounced))
      funcMatch == FindMatch(FILTER_OPTIONS_functions, LoweredFunctions, term)
      senMatch == FindMatch(FILTER_OPTIONS_seniority, LoweredSeniority, term)
      remMatch == FindMatch(FILTER_OPTIONS_remote, LoweredRemote, term)
  IN  IF debounced = "" THEN NoUpdates
      ELSE IF funcMatch # << >>
      THEN [jobFunction |-> << funcMatch[1].value >>, textSearch |-> ""]
      ELSE IF senMatch # << >>
      THEN [seniority |-> << senMatch[1].value >>, textSearch |-> ""]
      ELSE IF remMatch # << >>
      THEN [remoteType |-> << remMatch[1].value >>, textSearch |-> ""]
      ELSE NoUpdates

(***************************************************************************)
(* Pagination window.                                                      *)
(***************************************************************************)
Max(a, b) ==
  IF a >= b THEN a ELSE b
Min(a, b) ==
  IF a <= b THEN a ELSE b

\* PaginationWindow without the re-derivation of start for a short range
PaginationWindow_NoRederive(currentPage, totalCount, pageSize, maxVisible) ==
  LET totalPages == CeilDiv(totalCount, pageSize)
      start == Max(1, currentPage - (maxVisible \div 2))
      end == Min(totalPages, start + maxVisible - 1)
  IN  [i \in 1..(end - start + 1) |-> start + i - 1]

\* PaginationWindow re-deriving start without the floor of 1
PaginationWindow_UnclampedStart(currentPage, totalCount, pageSize, maxVisible) ==
  LET totalPages == CeilDiv(totalCount, pageSize)
      start0 == Max(1, currentPage - (maxVisible \div 2))
      end == Min(totalPages, start0 + maxVisible - 1)
      start == IF end - start0 + 1 < maxVisible
               THEN end - maxVisible + 1
               ELSE start0
  IN  [i \in 1..(end - start + 1) |-> start + i - 1]

\* PaginationWindow starting at the current page
PaginationWindow_FromCurrent(currentPage, totalCount, pageSize, maxVisible) ==
  LET totalPages == CeilDiv(totalCount, pageSize)
      end == Min(totalPages, currentPage + maxVisible - 1)
  IN  [i \in 1..(end - currentPage + 1) |-> currentPage + i - 1]

\* the page indices rendered as direct-jump buttons
PaginationWindow(currentPage, totalCount, pageSize, maxVisible) ==
  LET totalPages == CeilDiv(totalCount, pageSize)
      start0 == Max(1, currentPage - (maxVisible \div 2))
      end == Min(totalPages, start0 + maxVisible - 1)
      start == IF end - start0 + 1 < maxVisible
               THEN Max(1, end - maxVisible + 1)
               ELSE start0
  IN  [i \in 1..(end - start + 1) |-> start + i - 1]

(***************************************************************************)
(* Initial state: the component has mounted and its mount effect has       *)
(* issued the first listing request.                                       *)
(***************************************************************************)
Init ==
  /\ variant \in {Explorer, Classic}
  /\ jobs = << >>
  /\ total = 0
  /\ loading = TRUE
  /\ page = 1
  /\ textSearch = ""
  /\ debouncedSearch = ""
  /\ timerPending = FALSE
  /\ timerValue = ""
  /\ effects = {}
  /\ queued = NoUpdates
  /\ naturalQuery = ""
  /\ seniority = << >>
  /\ jobFunction = << >>
  /\ remoteType = << >>
  /\ location = ""
  /\ salaryMin = ""
  /\ salaryMax = ""
  /\ city = ""
  /\ country = ""
  /\ selectedSkills = << >>
  /\ isParsing = FALSE
  /\ parseExplanation = ""
  /\ inFlight = << [params |-> Serialize, superseded |-> FALSE] >>
  /\ parsesInFlight = 0
  /\ userEvents = 0
  /\ promoted = NoUpdates
  /\ retyped = FALSE

(***************************************************************************)
(* Renders and effects.  fetchJobs is a useCallback over the filter        *)
(* values; the effect re-runs it in the render after any of them changed.  *)
(* Strings and numbers change by value, arrays by identity: a setter       *)
(* called with a fresh array always re-runs the effect.                    *)
(***************************************************************************)
\* the render of state st returns: the classic page calls
\* total.toLocaleString() in every render and reads jobs.length once it is
\* not loading; the explorer page calls jobs.map once it is not loading
\* and the companies page reads companies.length once it is not loading,
\* and both only interpolate total
Renders(st) ==
  IF variant = Classic
  THEN st.total # UndefinedNum /\ (st.loading \/ st.jobs # Undefined)
  ELSE st.loading \/ st.jobs # Undefined

\* the page still renders: a render that throws tears the component down
Alive ==
  Renders(Rendered)

\* the non-array dependencies of fetchJobs in the render that commits st
ValueDeps(st) ==
  IF variant = Explorer
  THEN << st.page, st.debouncedSearch, st.location, st.salaryMin, st.salaryMax >>
  ELSE << st.page, st.textSearch, st.salaryMin, st.salaryMax, st.city, st.country >>

\* the effects whose dependencies differ between the render that committed
\* prev and the next one, which commits st after the setter calls u; the
\* effect inside useDebounce depends on the raw text
EffectsOf(prev, st, u) ==
  { e \in {"fetchJobs"} :
             DOMAIN u \cap ArrayState # {} \/ ValueDeps(st) # ValueDeps(prev) }
    \cup { e \in {"smartSearch"} :
             variant = Explorer /\ st.debouncedSearch # prev.debouncedSearch }
    \cup { e \in {"useDebounce"} :
             variant = Explorer /\ st.textSearch # prev.textSearch }

\* a listing request awaiting its response
Request(params) ==
  [params |-> params, superseded |-> FALSE]

\* the parameters fetchJobs builds in the render that committed st
SerializeOf(st) ==
  IF variant = Explorer
  THEN SerializeExplorer(st, st.debouncedSearch)
  ELSE SerializeClassic(st)

\* an effect that does nothing
NoEffect ==
  [sent |-> << >>, calls |-> NoUpdates]

\* fetchJobs serializing the Filter State of the render before the change
FetchJobs_StaleClosure(st) ==
  [sent |-> << Request(Serialize) >>, calls |-> [loading |-> TRUE]]

\* fetchJobs up to its await, in the render that committed st: it calls
\* setLoading(true) and sends the request with the parameters of that render
FetchJobs(st) ==
  [sent |-> << Request(SerializeOf(st)) >>, calls |-> [loading |-> TRUE]]

\* useEffect(() => { fetchJobs() }, [fetchJobs])
FetchEffect(fx, st) ==
  IF "fetchJobs" \in fx THEN FetchJobs(st) ELSE NoEffect

\* the Smart Search effect on the debounced text
SmartSearchEffect(fx, st) ==
  IF "smartSearch" \in fx
  THEN [sent |-> << >>, calls |-> SmartMatch(st.debouncedSearch)]
  ELSE NoEffect

\* useDebounce is imported from '@/hooks/useDebounce', which is not among
\* the sources; it is taken to be the usual hook: a state for the debounced
\* value and an effect on the raw value that sets a timeout and clears it
\* on cleanup.  The effect in the render that committed st clears the
\* timeout of the render before and arms one that will set the raw text of
\* st; the texts armed, in order
DebounceEffect(fx, st) ==
  IF "useDebounce" \in fx THEN << st.textSearch >> ELSE << >>

\* the timeout after the effects of a step armed it with texts, in order
Armed(texts) ==
  IF texts = << >>
  THEN UNCHANGED << timerPending, timerValue >>
  ELSE /\ timerPending' = TRUE
       /\ timerValue' = texts[Len(texts)]

\* the effects fx of the render that committed st run, in the order of
\* their declaration
RunEffects(fx, st) ==
  [sent |-> FetchEffect(fx, st).sent,
   calls |-> Over(FetchEffect(fx, st).calls, SmartSearchEffect(fx, st).calls),
   armed |-> DebounceEffect(fx, st)]

\* history of the promotions: the Smart Search effect among fx promotes
\* the debounced text of st, or else the step puts a text in the search
\* box (wrote)
History(fx, st, wrote) ==
  IF "smartSearch" \in fx /\ SmartMatch(st.debouncedSearch) # NoUpdates
  THEN /\ promoted' = Drop(SmartMatch(st.debouncedSearch), {"textSearch"})
       /\ retyped' = FALSE
  ELSE /\ retyped' = (retyped \/ (wrote /\ promoted # NoUpdates))
       /\ UNCHANGED promoted

\* the setter calls u put a text in the search box
Writes(u) ==
  "textSearch" \in DOMAIN u /\ u.textSearch # ""

\* one more user event is handled
UserEvent ==
  /\ userEvents < MaxUserEvents
  /\ userEvents' = userEvents + 1

\* the setter calls s make React render: one of them changes its state, or
\* updates already wait, or effects of the last render have not run yet
Schedules(s) ==
  \E n \in DOMAIN s :
     \/ n \in ArrayState
     \/ s[n] # Rendered[n]
     \/ DOMAIN queued # {}
     \/ effects # {}

\* the continuation, callback or effect keeps every state the page has
\* rendered
RenderedUnchanged ==
  /\ SetFilters(Filters)
  /\ UNCHANGED << jobs, total, loading, debouncedSearch, naturalQuery,
                  isParsing, parseExplanation >>

\* React handles a user event whose handler made the setter calls s.  The
\* effects of the last render that have not run yet run first; then the
\* calls of the handler are rendered, without the updates that wait, and
\* the effects of that render run.  An update that waited for a state the
\* handler sets is overtaken by the handler's; where the handler's setter
\* is an updater function, rebased gives its result on the waiting value,
\* which waits on.  The setters the effects call wait for the next render
SyncRender(s, rebased) ==
  IF Schedules(s)
  THEN \E st \in { Over(Rendered, s) } :
       \E before \in { RunEffects(effects, Rendered) } :
       \E after \in { RunEffects(EffectsOf(Rendered, st, s), st) } :
         /\ Commit(st)
         /\ Armed(before.armed \o after.armed)
         /\ History(effects, Rendered, Writes(s))
         /\ effects' = {}
         /\ Len(inFlight) + Len(before.sent) + Len(after.sent) <= MaxInFlight
         /\ inFlight' = inFlight \o before.sent \o after.sent
         /\ queued' = Pending(st, Over(Drop(queued, DOMAIN s), rebased),
                              Over(before.calls, after.calls))
  ELSE /\ RenderedUnchanged
       /\ UNCHANGED << effects, timerPending, timerValue, inFlight, queued,
                       promoted, retyped >>

\* an event handler of the filter panel or the pagination row
UserEdit(s, rebased) ==
  /\ Alive
  /\ UserEvent
  /\ SyncRender(s, rebased)
  /\ UNCHANGED << variant, parsesInFlight >>

\* React renders the updates that wait: the component commits them.  The
\* effects whose dependencies changed are left to run in a later task; a
\* render that throws leaves none
Render ==
  /\ Alive
  /\ DOMAIN queued # {}
  /\ effects = {}
  /\ \E st \in { Latest } :
       /\ Commit(st)
       /\ effects' = IF Renders(st) THEN EffectsOf(Rendered, st, queued) ELSE {}
  /\ queued' = NoUpdates
  /\ UNCHANGED << variant, userEvents, parsesInFlight, inFlight, timerPending,
                  timerValue, promoted, retyped >>

\* the effects of the last render run: the effect of useDebounce on the raw
\* text, the fetch effect on fetchJobs, the Smart Search effect on the
\* debounced text.  The setters they call wait for the next render
Effects ==
  /\ Alive
  /\ effects # {}
  /\ effects' = {}
  /\ \E ran \in { RunEffects(effects, Rendered) } :
       /\ Len(inFlight) + Len(ran.sent) <= MaxInFlight
       /\ inFlight' = inFlight \o ran.sent
       /\ queued' = Pending(Rendered, queued, ran.calls)
       /\ Armed(ran.armed)
  /\ History(effects, Rendered, FALSE)
  /\ RenderedUnchanged
  /\ UNCHANGED << variant, userEvents, parsesInFlight >>

(***************************************************************************)
(* Keyword box and debounce (explorer).                                    *)
(***************************************************************************)
TypeTextExplorer(t) ==
  /\ variant = Explorer
  /\ t # textSearch
  /\ UserEdit([textSearch |-> t], NoUpdates)

\* the debounce timeout fires: its callback calls the setter of the
\* debounced value with the raw text of the render whose effect armed it;
\* the call waits for the next render
Settle ==
  /\ variant = Explorer
  /\ Alive
  /\ timerPending
  /\ timerPending' = FALSE
  /\ timerValue' = ""
  /\ queued' = Pending(Rendered, queued, [debouncedSearch |-> timerValue])
  /\ RenderedUnchanged
  /\ UNCHANGED << variant, userEvents, effects, inFlight, parsesInFlight,
                  promoted, retyped >>

(***************************************************************************)
(* Facet dropdowns, location and pagination (explorer).                    *)
(***************************************************************************)
\* FilterSelect: clicking the selected option deselects it
FilterSelectClick(value, opt) ==
  IF opt = value THEN "" ELSE opt

\* seniority[0] || ''
FirstOrEmpty(list) ==
  IF Len(list) > 0 THEN list[1] ELSE ""

\* v ? [v] : []
SingleOrNone(v) ==
  IF v # "" THEN << v >> ELSE << >>

SelectSeniority(opt) ==
  /\ variant = Explorer
  /\ UserEdit([seniority |->
                 SingleOrNone(FilterSelectClick(FirstOrEmpty(seniority), opt))],
              NoUpdates)

SelectFunction(opt) ==
  /\ variant = Explorer
  /\ UserEdit([jobFunction |->
                 SingleOrNone(FilterSelectClick(FirstOrEmpty(jobFunction), opt))],
              NoUpdates)

SelectRemote(opt) ==
  /\ variant = Explorer
  /\ UserEdit([remoteType |->
                 SingleOrNone(FilterSelectClick(FirstOrEmpty(remoteType), opt))],
              NoUpdates)

SelectLocation(opt) ==
  /\ variant = Explorer
  /\ UserEdit([location |-> FilterSelectClick(location, opt)], NoUpdates)

\* the result of a setPage updater on the page that waits, if one does
RebasedPage(newPage) ==
  IF "page" \in DOMAIN queued THEN [page |-> newPage] ELSE NoUpdates

\* PrevPageExplorer with the button enabled on page 1 as well
PrevPageExplorer_NeverDisabled ==
  /\ variant = Explorer
  /\ UserEdit([page |-> page - 1], RebasedPage(Latest.page - 1))

\* setPage(p => p - 1)
PrevPageExplorer ==
  /\ variant = Explorer
  /\ page # 1
  /\ UserEdit([page |-> page - 1], RebasedPage(Latest.page - 1))

\* setPage(p => p + 1); disabled={page >= Math.ceil(total / 20)}, which is
\* false for an undefined total (the comparison is with NaN)
NextPageExplorer ==
  /\ variant = Explorer
  /\ ~(total # UndefinedNum /\ page >= CeilDiv(total, 20))
  /\ UserEdit([page |-> page + 1], RebasedPage(Latest.page + 1))

GotoPage(i) ==
  /\ variant = Explorer
  /\ UserEdit([page |-> i], NoUpdates)
  /\ \E k \in 1..Len(PaginationWindow(page, total, 20, MaxVisible)) :
        PaginationWindow(page, total, 20, MaxVisible)[k] = i

\* the Clear button is rendered with a facet, a location or an utterance
ClearShown ==
  \/ Len(seniority) > 0
  \/ Len(jobFunction) > 0
  \/ Len(remoteType) > 0
  \/ location # ""
  \/ naturalQuery # ""

\* ClearFilters leaving the job-function selection
ClearFilters_KeepsFunction ==
  /\ variant = Explorer
  /\ ClearShown
  /\ UserEdit([seniority |-> << >>,
               remoteType |-> << >>, location |-> "", salaryMin |-> "",
               salaryMax |-> "", selectedSkills |-> << >>, textSearch |-> "",
               naturalQuery |-> "", parseExplanation |-> "", page |-> 1],
              NoUpdates)

ClearFilters ==
  /\ variant = Explorer
  /\ ClearShown
  /\ UserEdit([seniority |-> << >>, jobFunction |-> << >>,
               remoteType |-> << >>, location |-> "", salaryMin |-> "",
               salaryMax |-> "", selectedSkills |-> << >>, textSearch |-> "",
               naturalQuery |-> "", parseExplanation |-> "", page |-> 1],
              NoUpdates)

(***************************************************************************)
(* Manual filters and pagination (classic).                                *)
(***************************************************************************)
\* TypeTextClassic without the setPage(1)
TypeTextClassic_KeepsPage(t) ==
  /\ variant = Classic
  /\ t # textSearch
  /\ UserEdit([textSearch |-> t], NoUpdates)

TypeTextClassic(t) ==
  /\ variant = Classic
  /\ t # textSearch
  /\ UserEdit([textSearch |-> t, page |-> 1], NoUpdates)

SetSalaryMin(v) ==
  /\ variant = Classic
  /\ v # salaryMin
  /\ UserEdit([salaryMin |-> v, page |-> 1], NoUpdates)

SetSalaryMax(v) ==
  /\ variant = Classic
  /\ v # salaryMax
  /\ UserEdit([salaryMax |-> v, page |-> 1], NoUpdates)

SetCity(v) ==
  /\ variant = Classic
  /\ v # city
  /\ UserEdit([city |-> v, page |-> 1], NoUpdates)

SetCountry(v) ==
  /\ variant = Classic
  /\ v # country
  /\ UserEdit([country |-> v, page |-> 1], NoUpdates)

\* current.filter(v => v !== value)
Without(current, value) ==
  LET keep == { i \in 1..Len(current) : current[i] # value }
      nth(k) == CHOOSE i \in keep : Cardinality({ j \in keep : j <= i }) = k
  IN  [k \in 1..Cardinality(keep) |-> current[nth(k)]]

\* current.includes(value)
Includes(current, value) ==
  \E i \in 1..Len(current) : current[i] = value

\* ToggleFilter appending the value whether or not it is selected
ToggleFilter_AlwaysAppends(value, current) ==
  Append(current, value)

\* the list toggleFilter hands to the setter
ToggleFilter(value, current) ==
  IF Includes(current, value)
  THEN Without(current, value)
  ELSE Append(current, value)

ToggleSeniority(opt) ==
  /\ variant = Classic
  /\ UserEdit([seniority |-> ToggleFilter(opt, seniority), page |-> 1], NoUpdates)

ToggleFunction(opt) ==
  /\ variant = Classic
  /\ UserEdit([jobFunction |-> ToggleFilter(opt, jobFunction), page |-> 1], NoUpdates)

ToggleRemote(opt) ==
  /\ variant = Classic
  /\ UserEdit([remoteType |-> ToggleFilter(opt, remoteType), page |-> 1], NoUpdates)

\* the pagination row is rendered only with results on more than one page
PaginationShownClassic ==
  /\ ~loading
  /\ Len(jobs) # 0
  /\ CeilDiv(total, PageSize) > 1

\* setPage(p => Math.max(1, p - 1))
PrevPageClassic ==
  /\ variant = Classic
  /\ Alive
  /\ PaginationShownClassic
  /\ ~(page <= 1)
  /\ UserEdit([page |-> Max(1, page - 1)], RebasedPage(Max(1, Latest.page - 1)))

\* setPage(p => Math.min(totalPages, p + 1)), totalPages of the render
NextPageClassic ==
  /\ variant = Classic
  /\ Alive
  /\ PaginationShownClassic
  /\ ~(page >= CeilDiv(total, PageSize))
  /\ UserEdit([page |-> Min(CeilDiv(total, PageSize), page + 1)],
              RebasedPage(Min(CeilDiv(total, PageSize), Latest.page + 1)))

\* the Clear button is rendered with any manual filter set
HasActiveFilters ==
  \/ Len(seniority) > 0
  \/ Len(jobFunction) > 0
  \/ Len(remoteType) > 0
  \/ salaryMin # ""
  \/ salaryMax # ""
  \/ city # ""
  \/ country # ""
  \/ textSearch # ""

ClearAllFilters ==
  /\ variant = Classic
  /\ HasActiveFilters
  /\ UserEdit([textSearch |-> "", seniority |-> << >>, jobFunction |-> << >>,
               remoteType |-> << >>, salaryMin |-> "", salaryMax |-> "",
               city |-> "", country |-> "", naturalQuery |-> "",
               parseExplanation |-> "", page |-> 1],
              NoUpdates)

(***************************************************************************)
(* Listing responses: fetchJobs from its await on.                         *)
(***************************************************************************)
\* data.jobs / data.total of a parsed body
JobsOf(body) ==
  IF Has(body, "jobs") THEN body.jobs ELSE Undefined
TotalOf(body) ==
  IF Has(body, "total") THEN body.total ELSE UndefinedNum

\* explorer: the body is read only if res.ok
FetchAppliesExplorer(r) ==
  r.kind = "http" /\ r.ok /\ r.json

\* classic: the body of any answer that parses is read
FetchAppliesClassic(r) ==
  r.kind = "http" /\ r.json

\* inFlight without its i-th request; when that request's response is
\* stored, the requests issued before it are superseded
Resolved(i, applies) ==
  [k \in 1..(Len(inFlight) - 1) |->
     IF k < i
     THEN [inFlight[k] EXCEPT !.superseded = @ \/ applies]
     ELSE inFlight[k + 1]]

\* FetchResolve storing the jobs of the response and leaving the total
FetchResolve_JobsOnly(i, r, applies) ==
  /\ Alive
  /\ i \in 1..Len(inFlight)
  /\ inFlight' = Resolved(i, applies)
  /\ queued' = Pending(Rendered, queued,
                       IF applies
                       THEN [jobs |-> JobsOf(r.body), loading |-> FALSE]
                       ELSE [loading |-> FALSE])
  /\ RenderedUnchanged
  /\ UNCHANGED << variant, userEvents, effects, timerPending, timerValue,
                  parsesInFlight, promoted, retyped >>

\* the continuation of fetchJobs: setJobs and setTotal for a body that is
\* read, setLoading(false) in any case; the calls wait for the next render
FetchResolve(i, r, applies) ==
  /\ Alive
  /\ i \in 1..Len(inFlight)
  /\ inFlight' = Resolved(i, applies)
  /\ queued' = Pending(Rendered, queued,
                       IF applies
                       THEN [jobs |-> JobsOf(r.body), total |-> TotalOf(r.body),
                             loading |-> FALSE]
                       ELSE [loading |-> FALSE])
  /\ RenderedUnchanged
  /\ UNCHANGED << variant, userEvents, effects, timerPending, timerValue,
                  parsesInFlight, promoted, retyped >>

FetchResolveExplorer(i, r) ==
  /\ variant = Explorer
  /\ FetchResolve(i, r, FetchAppliesExplorer(r))

FetchResolveClassic(i, r) ==
  /\ variant = Classic
  /\ FetchResolve(i, r, FetchAppliesClassic(r))

(***************************************************************************)
(* Natural-language search.                                                *)
(***************************************************************************)
TypeNatural(u) ==
  /\ u # naturalQuery
  /\ UserEdit([naturalQuery |-> u], NoUpdates)

\* the Search button is disabled while parsing (and, in the classic page,
\* for a blank query); the Enter key handler has no such condition
SubmitEnabled(via) ==
  \/ via = "enter"
  \/ /\ via = "button"
     /\ ~isParsing
     /\ variant = Classic => Trim(naturalQuery) # ""

\* SubmitNatural testing the utterance without trimming it
SubmitNatural_NoTrim(via) ==
  /\ Alive
  /\ UserEvent
  /\ SubmitEnabled(via)
  /\ UNCHANGED variant
  /\ IF naturalQuery = ""
     THEN /\ SyncRender(NoUpdates, NoUpdates)
          /\ UNCHANGED parsesInFlight
     ELSE /\ SyncRender([isParsing |-> TRUE, parseExplanation |-> ""], NoUpdates)
          /\ parsesInFlight' = parsesInFlight + 1

\* handleNaturalSearch up to its await
SubmitNatural(via) ==
  /\ Alive
  /\ UserEvent
  /\ SubmitEnabled(via)
  /\ UNCHANGED variant
  /\ IF Trim(naturalQuery) = ""
     THEN /\ SyncRender(NoUpdates, NoUpdates)
          /\ UNCHANGED parsesInFlight
     ELSE /\ SyncRender([isParsing |-> TRUE, parseExplanation |-> ""], NoUpdates)
          /\ parsesInFlight' = parsesInFlight + 1

\* JS truthiness of an optional property
TruthyStr(o, k) ==
  Has(o, k) /\ o[k] # ""
TruthyNum(o, k) ==
  Has(o, k) /\ o[k] # 0
TruthyList(o, k) ==
  Has(o, k)
\* o.k?.length ?? 0
LengthOrZero(o, k) ==
  IF Has(o, k) THEN Len(o[k]) ELSE 0

\* if (cond) setter(v)
Set(cond, name, v) ==
  IF cond THEN [n \in {name} |-> v] ELSE NoUpdates

\* OverlayMerge with the facets reset when the proposal does not name them
OverlayMerge_ResetsFacets(f) ==
  LET cityAndState == TruthyStr(f, "location_city") /\ TruthyStr(f, "location_state")
      cityOnly == /\ ~cityAndState
                  /\ TruthyStr(f, "location_city")
                  /\ f.location_city # "Unknown"
  IN  Over(Over(Over(Over(Over(
        [seniority |-> IF TruthyList(f, "seniority") THEN f.seniority ELSE << >>],
        [jobFunction |->
           IF TruthyList(f, "job_function") THEN f.job_function ELSE << >>]),
        [remoteType |->
           IF TruthyList(f, "remote_type") THEN f.remote_type ELSE << >>]),
        IF TruthyNum(f, "salary_min")
        THEN [salaryMin |-> NumToString(f.salary_min)] ELSE NoUpdates),
        IF cityAndState
        THEN [location |-> f.location_city \o ", " \o f.location_state]
        ELSE NoUpdates),
        IF cityOnly THEN [textSearch |-> f.location_city] ELSE NoUpdates)

\* explorer, "Apply Filters": the setter calls for proposal f, which lay it
\* over the current state
OverlayMerge(f) ==
  LET cityAndState == TruthyStr(f, "location_city") /\ TruthyStr(f, "location_state")
      cityOnly == /\ ~cityAndState
                  /\ TruthyStr(f, "location_city")
                  /\ f.location_city # "Unknown"
  IN  Over(Over(Over(Over(Over(
        IF TruthyList(f, "seniority")
        THEN [seniority |-> f.seniority] ELSE NoUpdates,
        IF TruthyList(f, "job_function")
        THEN [jobFunction |-> f.job_function] ELSE NoUpdates),
        IF TruthyList(f, "remote_type")
        THEN [remoteType |-> f.remote_type] ELSE NoUpdates),
        IF TruthyNum(f, "salary_min")
        THEN [salaryMin |-> NumToString(f.salary_min)] ELSE NoUpdates),
        IF cityAndState
        THEN [location |-> f.location_city \o ", " \o f.location_state]
        ELSE NoUpdates),
        IF cityOnly THEN [textSearch |-> f.location_city] ELSE NoUpdates)

\* the response reaches "Apply Filters" without throwing
ParseAppliesExplorer(r) ==
  r.kind = "http" /\ r.ok /\ r.json /\ Has(r.body, "filters")

\* handleNaturalSearch (explorer) from its await on: the setters of the
\* proposal, setParseExplanation and setIsParsing(false) wait for the next
\* render
ParseResolveExplorer(r) ==
  /\ variant = Explorer
  /\ Alive
  /\ parsesInFlight > 0
  /\ parsesInFlight' = parsesInFlight - 1
  /\ \E merge \in { IF ParseAppliesExplorer(r)
                     THEN Over(OverlayMerge(r.body.filters),
                               [parseExplanation |-> r.body.explanation])
                     ELSE NoUpdates } :
       /\ queued' = Pending(Rendered, queued, Over(merge, [isParsing |-> FALSE]))
       /\ History({}, Rendered, Writes(merge))
  /\ RenderedUnchanged
  /\ UNCHANGED << variant, userEvents, effects, timerPending, timerValue,
                  inFlight >>

\* ClearedForMerge with only the keyword text cleared
ClearedForMerge_KeepsFacets ==
  [textSearch |-> ""]

\* classic, "Clear all existing filters first"
ClearedForMerge ==
  [textSearch |-> "", seniority |-> << >>, jobFunction |-> << >>,
   remoteType |-> << >>, salaryMin |-> "", salaryMax |-> "",
   city |-> "", country |-> ""]

\* HasStructuredFilters with the lists tested for truthiness, not length
HasStructuredFilters_ArrayTruthy(f) ==
  \/ TruthyList(f, "seniority")
  \/ TruthyList(f, "job_function")
  \/ TruthyList(f, "remote_type")
  \/ TruthyNum(f, "salary_min")
  \/ TruthyNum(f, "salary_max")
  \/ TruthyStr(f, "city")
  \/ TruthyStr(f, "country")

\* the proposal carries a structured filter
HasStructuredFilters(f) ==
  \/ LengthOrZero(f, "seniority") > 0
  \/ LengthOrZero(f, "job_function") > 0
  \/ LengthOrZero(f, "remote_type") > 0
  \/ TruthyNum(f, "salary_min")
  \/ TruthyNum(f, "salary_max")
  \/ TruthyStr(f, "city")
  \/ TruthyStr(f, "country")

\* classic: the setter calls of the clear, the q fallback, the structured
\* filters and setPage(1)
OverwriteMerge(f) ==
  Over(Over(Over(Over(Over(Over(Over(Over(Over(
    ClearedForMerge,
    Set(~HasStructuredFilters(f) /\ TruthyStr(f, "q"), "textSearch",
        IF Has(f, "q") THEN f.q ELSE "")),
    Set(LengthOrZero(f, "seniority") # 0, "seniority",
        IF Has(f, "seniority") THEN f.seniority ELSE << >>)),
    Set(LengthOrZero(f, "job_function") # 0, "jobFunction",
        IF Has(f, "job_function") THEN f.job_function ELSE << >>)),
    Set(LengthOrZero(f, "remote_type") # 0, "remoteType",
        IF Has(f, "remote_type") THEN f.remote_type ELSE << >>)),
    Set(TruthyNum(f, "salary_min"), "salaryMin",
        IF Has(f, "salary_min") THEN NumToString(f.salary_min) ELSE "")),
    Set(TruthyNum(f, "salary_max"), "salaryMax",
        IF Has(f, "salary_max") THEN NumToString(f.salary_max) ELSE "")),
    Set(TruthyStr(f, "city"), "city", IF Has(f, "city") THEN f.city ELSE "")),
    Set(TruthyStr(f, "country"), "country",
        IF Has(f, "country") THEN f.country ELSE "")),
    [page |-> 1])

\* data.explanation || 'Query parsed successfully'
ExplanationOrDefault(body) ==
  IF TruthyStr(body, "explanation") THEN body.explanation
  ELSE "Query parsed successfully"

\* handleNaturalSearch (classic) from its await on: the body of any answer
\* that parses is read; without a filters object the clears have been
\* called when the first property access throws.  The calls wait for the
\* next render
ParseResolveClassic(r) ==
  /\ variant = Classic
  /\ Alive
  /\ parsesInFlight > 0
  /\ parsesInFlight' = parsesInFlight - 1
  /\ queued' = Pending(Rendered, queued,
                       Over(IF r.kind = "http" /\ r.json
                            THEN IF Has(r.body, "filters")
                                 THEN Over(OverwriteMerge(r.body.filters),
                                           [parseExplanation |->
                                              ExplanationOrDefault(r.body)])
                                 ELSE Over(ClearedForMerge,
                                           [parseExplanation |->
                                              "Failed to parse query"])
                            ELSE [parseExplanation |-> "Failed to parse query"],
                            [isParsing |-> FALSE]))
  /\ RenderedUnchanged
  /\ UNCHANGED << variant, userEvents, effects, timerPending, timerValue,
                  inFlight, promoted, retyped >>

(***************************************************************************)
(* Specification.                                                          *)
(***************************************************************************)
Next ==
  \/ \E t \in TextInputs : TypeTextExplorer(t)
  \/ Settle
  \/ Render
  \/ Effects
  \/ \E o \in SeniorityPicks : SelectSeniority(o)
  \/ \E o \in FunctionPicks : SelectFunction(o)
  \/ \E o \in RemotePicks : SelectRemote(o)
  \/ \E o \in LocationOptions : SelectLocation(o)
  \/ PrevPageExplorer
  \/ NextPageExplorer
  \/ \E i \in 1..MaxVisible : GotoPage(i)
  \/ ClearFilters
  \/ \E t \in TextInputs : TypeTextClassic(t)
  \/ \E v \in SalaryInputs : SetSalaryMin(v)
  \/ \E v \in SalaryInputs : SetSalaryMax(v)
  \/ \E v \in CityInputs : SetCity(v)
  \/ \E v \in CountryInputs : SetCountry(v)
  \/ \E o \in SeniorityPicks : ToggleSeniority(o)
  \/ \E o \in FunctionPicks : ToggleFunction(o)
  \/ \E o \in RemotePicks : ToggleRemote(o)
  \/ PrevPageClassic
  \/ NextPageClassic
  \/ ClearAllFilters
  \/ \E i \in 1..MaxInFlight, r \in JobsResponses : FetchResolveExplorer(i, r)
  \/ \E i \in 1..MaxInFlight, r \in JobsResponses : FetchResolveClassic(i, r)
  \/ \E u \in Utterances : TypeNatural(u)
  \/ \E via \in {"button", "enter"} : SubmitNatural(via)
  \/ \E r \in ParseResponses : ParseResolveExplorer(r)
  \/ \E r \in ParseResponses : ParseResolveClassic(r)

Spec ==
  Init /\ [][Next]_vars

(***************************************************************************)
(* The query serializer, the pagination window and Smart-Match as          *)
(* functions of the state a render of the explorer page closes over.  The  *)
(* state is drawn from input sets, among them pages, totals, skills,       *)
(* location names and search terms that the inputs of Spec do not produce. *)
(***************************************************************************)
PageInputs ==
  {1, 3, 7}
TotalInputs ==
  {0, 37, 70, 100, 140, 400}
SeniorityInputs ==
  { << >>, << "senior" >> }
\* SkillSuggestion values, the selectedSkills the serializer is applied to
SkillInputs ==
  { << >>,
    << [id |-> "1", name |-> "SQL"] >>,
    << [id |-> "2", name |-> "Go"], [id |-> "1", name |-> "SQL"] >> }
\* search box contents: nothing, a work-arrangement label, a job-function
\* value with blanks around it, a seniority label, no vocabulary term
TermInputs ==
  {"", "Hybrid", " data ", "VP", "golang"}
\* location names: none, "City, State", with a second comma, without a
\* comma, with nothing before the comma
LocationInputs ==
  {"", "Austin, TX", "Portland, OR, USA", "Remote", " , TX"}

\* a submitted utterance whose parse request is outstanding, and what
\* POST /jobs/parse answers: a seniority that is in no vocabulary
UtteranceInputs ==
  {"wizard roles"}
ProposalInputs ==
  { [filters |-> [seniority |-> << "wizard" >>], explanation |-> "Wizard roles"] }

\* the explorer page some way into a session: the answers of its listing
\* requests have been rendered (a total is shown, nothing is in flight),
\* the user has picked a seniority and a location and gone to a page, has
\* typed a text into the search box, whose timeout is armed, and may have
\* submitted an utterance, whose parse request is outstanding; one more
\* user event will be handled.  The page never holds a skill (only
\* clearFilters calls setSelectedSkills)
FunctionsInit ==
  /\ variant = Explorer
  /\ total \in TotalInputs
  /\ jobs = (IF total = 0 THEN << >> ELSE << "j1" >>)
  /\ loading = FALSE
  /\ page \in PageInputs
  /\ textSearch \in TermInputs
  /\ debouncedSearch = ""
  /\ timerPending = (textSearch # "")
  /\ timerValue = textSearch
  /\ effects = {}
  /\ queued = NoUpdates
  /\ naturalQuery \in {""} \cup UtteranceInputs
  /\ seniority \in SeniorityInputs
  /\ jobFunction = << >>
  /\ remoteType = << >>
  /\ location \in LocationInputs
  /\ salaryMin = ""
  /\ salaryMax = ""
  /\ city = ""
  /\ country = ""
  /\ selectedSkills = << >>
  /\ isParsing = (naturalQuery # "")
  /\ parseExplanation = ""
  /\ inFlight = << >>
  /\ parsesInFlight = (IF naturalQuery # "" THEN 1 ELSE 0)
  /\ userEvents = MaxUserEvents - 1
  /\ promoted = NoUpdates
  /\ retyped = FALSE

FunctionsNext ==
  \/ Effects
  \/ Settle
  \/ Render
  \/ \E b \in ProposalInputs : ParseResolveExplorer(Http(TRUE, TRUE, b))
  \/ \E i \in { p + d : p \in PageInputs \cup {1}, d \in 0..MaxVisible } : GotoPage(i)

FunctionsSpec ==
  FunctionsInit /\ [][FunctionsNext]_vars

(***************************************************************************)
(* The companies listing (companies/page.tsx).  It has the shape of the    *)
(* listing part of the jobs pages and is held in the same variables: jobs  *)
(* is its companies state, textSearch its query state.                     *)
(***************************************************************************)
CompaniesPageSize ==
  24
QueryInputs ==
  {"", "acme"}
CompaniesTotals ==
  {30, 60}

\* the URLSearchParams fetchCompanies builds from the page and the query
\* of the render whose closure it is
SerializeCompanies(p, q) ==
  Param("page", NumToString(p))
  \o Param("page_size", NumToString(CompaniesPageSize))
  \o Opt(q # "", "q", q)

\* answers of GET /companies to a request: the listing of the page it asks
\* for, with one of the totals, or a failure
CompaniesResponses(params) ==
  { Reject, Http(FALSE, TRUE, ErrorBody) }
    \cup { Http(TRUE, TRUE,
                 [companies |-> << "company of page "
                                     \o (IF params = << >> THEN "" ELSE params[1][2]) >>,
                  total |-> n]) :
             n \in CompaniesTotals }

\* the page has mounted and its effect has called fetchCompanies
CompaniesInit ==
  /\ variant = Companies
  /\ jobs = << >>
  /\ total = 0
  /\ loading = TRUE
  /\ page = 1
  /\ textSearch = ""
  /\ debouncedSearch = ""
  /\ timerPending = FALSE
  /\ timerValue = ""
  /\ effects = {}
  /\ queued = NoUpdates
  /\ naturalQuery = ""
  /\ seniority = << >>
  /\ jobFunction = << >>
  /\ remoteType = << >>
  /\ location = ""
  /\ salaryMin = ""
  /\ salaryMax = ""
  /\ city = ""
  /\ country = ""
  /\ selectedSkills = << >>
  /\ isParsing = FALSE
  /\ parseExplanation = ""
  /\ inFlight = << Request(SerializeCompanies(1, "")) >>
  /\ parsesInFlight = 0
  /\ userEvents = 0
  /\ promoted = NoUpdates
  /\ retyped = FALSE

\* what the companies page does not have
CompaniesUnused ==
  UNCHANGED << variant, debouncedSearch, timerPending, timerValue, effects,
               naturalQuery, seniority, jobFunction, remoteType, location,
               salaryMin, salaryMax, city, country, selectedSkills, isParsing,
               parseExplanation, parsesInFlight, promoted, retyped >>

\* React handles a user event of the companies page: the handler made the
\* setter calls s and sent the requests its own fetchCompanies() call
\* builds; its render commits s, and if the page changed the effect of that
\* render calls fetchCompanies, whose setLoading(true) waits for the next
\* render
SyncRenderCompanies(s, sent) ==
  \E st \in { Over(Rendered, s) } :
  \E fetched \in { IF st.page # page
                   THEN << Request(SerializeCompanies(st.page, st.textSearch)) >>
                   ELSE << >> } :
    /\ jobs' = st.jobs
    /\ total' = st.total
    /\ loading' = st.loading
    /\ page' = st.page
    /\ textSearch' = st.textSearch
    /\ Len(inFlight) + Len(sent) + Len(fetched) <= MaxInFlight
    /\ inFlight' = inFlight \o sent \o fetched
    /\ queued' = Pending(st, Drop(queued, DOMAIN s),
                         IF fetched # << >> THEN [loading |-> TRUE] ELSE NoUpdates)
    /\ CompaniesUnused

\* onChange of the search input: setQuery; the effect depends on page only
TypeQuery(t) ==
  /\ variant = Companies
  /\ Alive
  /\ UserEvent
  /\ t # textSearch
  /\ SyncRenderCompanies([textSearch |-> t], << >>)

\* handleSearch: setPage(1), then fetchCompanies() of the render that
\* handles the event, whose closure holds the page of that render; if the
\* page changes, the effect of the next render calls fetchCompanies again
HandleSearch ==
  /\ variant = Companies
  /\ Alive
  /\ UserEvent
  /\ SyncRenderCompanies([page |-> 1, loading |-> TRUE],
                         << Request(SerializeCompanies(page, textSearch)) >>)

\* the pagination block is rendered
PaginationShownCompanies ==
  /\ ~loading
  /\ Len(jobs) # 0
  /\ CeilDiv(total, CompaniesPageSize) > 1

\* a page button: setPage, and the effect of the next render fetches
TurnPageCompanies(newPage) ==
  /\ variant = Companies
  /\ Alive
  /\ UserEvent
  /\ PaginationShownCompanies
  /\ SyncRenderCompanies([page |-> newPage], << >>)

PrevPageCompanies ==
  /\ ~(page <= 1)
  /\ TurnPageCompanies(Max(1, page - 1))

NextPageCompanies ==
  /\ ~(page >= CeilDiv(total, CompaniesPageSize))
  /\ TurnPageCompanies(Min(CeilDiv(total, CompaniesPageSize), page + 1))

\* fetchCompanies from its await on: any body that parses is stored; the
\* setter calls wait for the next render
FetchResolveCompanies(i, r) ==
  /\ variant = Companies
  /\ Alive
  /\ i \in 1..Len(inFlight)
  /\ r \in CompaniesResponses(inFlight[i].params)
  /\ inFlight' = [k \in 1..(Len(inFlight) - 1) |->
                    IF k < i THEN inFlight[k] ELSE inFlight[k + 1]]
  /\ queued' = Pending(Rendered, queued,
                       IF r.kind = "http" /\ r.json
                       THEN [jobs |-> IF Has(r.body, "companies")
                                      THEN r.body.companies ELSE Undefined,
                             total |-> TotalOf(r.body), loading |-> FALSE]
                       ELSE [loading |-> FALSE])
  /\ UNCHANGED << jobs, total, loading, page, textSearch, userEvents >>
  /\ CompaniesUnused

\* React renders the updates that wait; the page did not change, so no
\* effect runs
RenderCompanies ==
  /\ variant = Companies
  /\ Alive
  /\ DOMAIN queued # {}
  /\ jobs' = Latest.jobs
  /\ total' = Latest.total
  /\ loading' = Latest.loading
  /\ queued' = NoUpdates
  /\ UNCHANGED << page, textSearch, userEvents, inFlight >>
  /\ CompaniesUnused

CompaniesNext ==
  \/ \E t \in QueryInputs : TypeQuery(t)
  \/ HandleSearch
  \/ PrevPageCompanies
  \/ NextPageCompanies
  \/ \E i \in 1..MaxInFlight :
       \E r \in CompaniesResponses(IF i <= Len(inFlight) THEN inFlight[i].params ELSE << >>) :
         FetchResolveCompanies(i, r)
  \/ RenderCompanies

CompaniesSpec ==
  CompaniesInit /\ [][CompaniesNext]_vars

(***************************************************************************)
(* Properties.                                                             *)
(***************************************************************************)
\* answers that count as a failed listing fetch / a failed parse
JobsFailures ==
  { Reject, Http(FALSE, FALSE, ErrorBody), Http(FALSE, TRUE, ErrorBody) }
ParseFailures ==
  { Reject, Http(FALSE, FALSE, ErrorBody), Http(FALSE, TRUE, ErrorBody),
    Http(TRUE, TRUE, ErrorBody) }

\* a step in which the i-th listing request receives answer r
FetchResolves(i, r) ==
  FetchResolveExplorer(i, r) \/ FetchResolveClassic(i, r)

\* a step in which a parse request receives answer r
ParseResolves(r) ==
  ParseResolveExplorer(r) \/ ParseResolveClassic(r)

\* a step in which a parse request receives a proposal that is merged
MergesExplorer(r) ==
  ParseResolveExplorer(r) /\ r \in { Http(TRUE, TRUE, b) : b \in ParseBodies }
MergesClassic(r) ==
  ParseResolveClassic(r) /\ r \in { Http(TRUE, TRUE, b) : b \in ParseBodies }

\* a proposal field that is supplied: present and not empty (a non-empty
\* list, a non-zero number, a non-empty string)
SuppliedList(f, k) ==
  Has(f, k) /\ Len(f[k]) > 0
SuppliedNum(f, k) ==
  Has(f, k) /\ f[k] > 0
SuppliedStr(f, k) ==
  Has(f, k) /\ Len(f[k]) > 0

\* the names of the Filter State
FilterNames ==
  {"textSearch", "seniority", "jobFunction", "remoteType", "location",
   "salaryMin", "salaryMax", "city", "country", "selectedSkills", "page"}

\* the Filter State the page shows once React has rendered the updates
\* that wait
LatestFilters ==
  CHOOSE f \in { [n \in FilterNames |-> l[n]] : l \in {Latest} } : TRUE

\* the debounced text once React has rendered the updates that wait
LatestDebounced ==
  IF "debouncedSearch" \in DOMAIN queued
  THEN queued.debouncedSearch
  ELSE debouncedSearch

\* the facet and the value that a search-box text names, << "none", "" >>
\* when it is no vocabulary term
TermFacet(text) ==
  LET term == Trim(ToLowerCase(text))
      names(lowered) == { i \in 1..Len(lowered) :
                            lowered[i].label = term \/ lowered[i].value = term }
      first(options, lowered) ==
        options[CHOOSE i \in names(lowered) : \A j \in names(lowered) : i <= j].value
  IN  IF text = "" THEN << "none", "" >>
      ELSE IF names(LoweredFunctions) # {}
      THEN << "jobFunction", first(FILTER_OPTIONS_functions, LoweredFunctions) >>
      ELSE IF names(LoweredSeniority) # {}
      THEN << "seniority", first(FILTER_OPTIONS_seniority, LoweredSeniority) >>
      ELSE IF names(LoweredRemote) # {}
      THEN << "remoteType", first(FILTER_OPTIONS_remote, LoweredRemote) >>
      ELSE << "none", "" >>

\* the selection of a facet in Filter State f
FacetOf(f, name) ==
  CASE name = "jobFunction" -> f.jobFunction
    [] name = "seniority" -> f.seniority
    [] name = "remoteType" -> f.remoteType
    [] OTHER -> << >>

\* C1: last-request-wins: when a listing request resolves after the response
\* of a request issued later has been stored, the jobs and total the page
\* comes to show stay those of the newer response.
C1_LastRequestWins ==
  [][\A i \in 1..MaxInFlight, r \in JobsResponses :
       (/\ i <= Len(inFlight)
        /\ inFlight[i].superseded
        /\ FetchResolves(i, r))
       => (Latest'.jobs = Latest.jobs /\ Latest'.total = Latest.total)]_vars

\* C2: a failed parse request (transport error, non-2xx answer, body without
\* a filters object) leaves every field of Filter State as it was, under
\* both merge policies.
C2_FailedParseKeepsFilters ==
  [][\A r \in ParseFailures : ParseResolves(r) => LatestFilters' = LatestFilters]_vars

\* C3: a failed listing fetch (network error, non-2xx answer, unparsable
\* body) leaves the displayed jobs and total as they were, in both pages.
C3_FailedFetchKeepsDisplay ==
  [][\A i \in 1..MaxInFlight, r \in JobsFailures :
       FetchResolves(i, r)
         => (Latest'.jobs = Latest.jobs /\ Latest'.total = Latest.total)]_vars

\* C4: when the debounce settles on a search-box text that names a
\* vocabulary entry (after trimming, case-insensitively), the facet it names
\* holds exactly that value and freeText is empty, whatever was typed before.
\* So once the timeout has fired and everything it set off has been rendered
\* (no timeout armed, no update waiting, no effect left to run), the search
\* box holds no vocabulary term.
C4_VocabularyTermIsPromoted ==
  (/\ variant = Explorer
   /\ ~timerPending
   /\ DOMAIN queued = {}
   /\ effects = {})
    => TermFacet(textSearch)[1] = "none"

\* in state st the search box names the term of the last promotion and the
\* facet of that promotion holds its value
InBothPlaces(st) ==
  \E n \in DOMAIN promoted :
     /\ TermFacet(st.textSearch) = << n, promoted[n][1] >>
     /\ st[n] = promoted[n]

\* C5 as stated: once Smart-Match has promoted a term into a facet, no later
\* state holds that term both in freeText and in that facet.  The state is
\* the one the page shows once React has rendered the updates that wait.
C5_NeverInBothPlaces ==
  (variant = Explorer /\ DOMAIN promoted # {}) => ~InBothPlaces(Latest)

\* C5 as amended: the step in which the Smart Search effect runs on a
\* debounced text that names a vocabulary term calls the setter of the
\* facet with that value and the setter that clears freeText together, so
\* the next render shows the value in the facet and an empty search box;
\* and from then on, until a text is put in the search box again (typed, or
\* the location term of a parsed utterance), no state holds the term both
\* in freeText and in the facet: the page shows both only while the two
\* setter calls of the promotion still wait for their render.
C5_PromotionClearsFreeText ==
  /\ []((variant = Explorer /\ DOMAIN promoted # {} /\ ~retyped)
          => /\ ~InBothPlaces(Latest)
             /\ InBothPlaces(Rendered)
                  => ("textSearch" \in DOMAIN queued /\ queued.textSearch = ""))
  /\ [][(/\ variant = Explorer
         /\ "smartSearch" \in effects
         /\ effects' = {}
         /\ TermFacet(debouncedSearch)[1] # "none")
          => \A after \in {Latest'} :
               /\ after.textSearch = ""
               /\ FacetOf(after, TermFacet(debouncedSearch)[1])
                    = << TermFacet(debouncedSearch)[2] >>]_vars

\* a term has been promoted and the render of the promotion has been
\* committed: it is in the facet and the search box is empty
C5_Witness ==
  /\ variant = Explorer
  /\ DOMAIN promoted # {}
  /\ ~retyped
  /\ DOMAIN queued \cap {"textSearch", "jobFunction"} = {}
  /\ TermFacet(debouncedSearch)[1] # "none"
  /\ textSearch = ""
  /\ FacetOf(Filters, TermFacet(debouncedSearch)[1])
       = << TermFacet(debouncedSearch)[2] >>
  /\ promoted = [jobFunction |-> << "sales" >>]

\* C6: natural-language submission is single-flight: at most one parse
\* request is outstanding at any time.
C6_SingleFlight ==
  parsesInFlight <= 1

\* C7: after every successful natural-language merge, under either policy,
\* page is 1.
C7_MergeResetsPage ==
  [][\A r \in ParseResponses :
       (MergesExplorer(r) \/ MergesClassic(r)) => Latest'.page = 1]_vars

\* C8: overwrite-all merge: after a successful parse every structured facet
\* holds the value the proposal supplies and is empty when the proposal
\* omits it, freeText is empty or the proposal's q, and page is 1, whatever
\* the state was before.  The state after the parse is the one the setter
\* calls of the merge give at the next render.
C8_OverwriteAll ==
  [][\A r \in ParseResponses :
       MergesClassic(r) =>
         \A after \in {Latest'} :
           LET f == r.body.filters
           IN  /\ after.seniority
                    = IF SuppliedList(f, "seniority") THEN f.seniority ELSE << >>
               /\ after.jobFunction
                    = IF SuppliedList(f, "job_function") THEN f.job_function ELSE << >>
               /\ after.remoteType
                    = IF SuppliedList(f, "remote_type") THEN f.remote_type ELSE << >>
               /\ after.salaryMin
                    = IF SuppliedNum(f, "salary_min") THEN NumToString(f.salary_min) ELSE ""
               /\ after.salaryMax
                    = IF SuppliedNum(f, "salary_max") THEN NumToString(f.salary_max) ELSE ""
               /\ after.city = IF SuppliedStr(f, "city") THEN f.city ELSE ""
               /\ after.country = IF SuppliedStr(f, "country") THEN f.country ELSE ""
               /\ after.textSearch \in {""} \cup (IF Has(f, "q") THEN {f.q} ELSE {})
               /\ after.page = 1]_vars

\* the proposal {seniority: [senior], city: NYC} has been merged
C8_Witness ==
  /\ variant = Classic
  /\ parseExplanation = "Senior roles in NYC"
  /\ seniority = << "senior" >>
  /\ city = "NYC"
  /\ textSearch = ""
  /\ jobFunction = << >>
  /\ page = 1

\* C9: overwrite-all fallback: after a successful parse freeText is the
\* proposal's q exactly when the proposal supplies q and no structured field
\* (seniority, job_function, remote_type, salary bound, city, country), and
\* is empty otherwise.
C9_QueryFallback ==
  [][\A r \in ParseResponses :
       MergesClassic(r) =>
         LET f == r.body.filters
             structured ==
               \/ \E k \in {"seniority", "job_function", "remote_type"} : SuppliedList(f, k)
               \/ \E k \in {"salary_min", "salary_max"} : SuppliedNum(f, k)
               \/ \E k \in {"city", "country"} : SuppliedStr(f, k)
         IN  Latest'.textSearch = IF ~structured /\ SuppliedStr(f, "q") THEN f.q ELSE ""]_vars

\* a proposal with only q has been merged: q is the free text
C9_Witness ==
  /\ variant = Classic
  /\ parseExplanation = "Query parsed successfully"
  /\ textSearch = "rust"
  /\ seniority = << >>
  /\ jobFunction = << >>

\* C10: overlay merge: a successful parse changes a facet, the salary
\* minimum or the location only if the proposal names it; the salary
\* maximum and the skills are never changed, and freeText only by a
\* location term.
C10_OverlayFrame ==
  [][\A r \in ParseResponses :
       MergesExplorer(r) =>
         \A before \in {Latest} : \A after \in {Latest'} :
           LET f == r.body.filters
           IN  /\ after.seniority # before.seniority => Has(f, "seniority")
               /\ after.jobFunction # before.jobFunction => Has(f, "job_function")
               /\ after.remoteType # before.remoteType => Has(f, "remote_type")
               /\ after.salaryMin # before.salaryMin => Has(f, "salary_min")
               /\ after.location # before.location
                    => (Has(f, "location_city") /\ Has(f, "location_state"))
               /\ after.textSearch # before.textSearch => Has(f, "location_city")
               /\ after.salaryMax = before.salaryMax
               /\ after.selectedSkills = before.selectedSkills
               /\ after.city = before.city
               /\ after.country = before.country]_vars

\* a proposal naming job_function has been merged over a work-type
\* selection, which is kept
C10_Witness ==
  /\ variant = Explorer
  /\ jobFunction = << "sales", "marketing" >>
  /\ remoteType = << "remote" >>
  /\ location = "Austin, TX"
  /\ parseExplanation # ""

\* C11: overlay merge routing: a proposal that supplies a bare q or location
\* term and no other structured field puts that term in freeText and changes
\* no facet (the location facet included); with other structured fields the
\* term is not routed into freeText.
C11_OverlayRouting ==
  [][\A b \in ParseBodies :
       ParseResolveExplorer(Http(TRUE, TRUE, b)) =>
         \A before \in {Latest} : \A after \in {Latest'} :
           LET f == b.filters
               terms == (IF SuppliedStr(f, "q") THEN {f.q} ELSE {})
                          \cup (IF SuppliedStr(f, "location_city")
                                THEN {f.location_city} ELSE {})
               other ==
                 \/ \E k \in {"seniority", "job_function", "remote_type"} : SuppliedList(f, k)
                 \/ \E k \in {"salary_min", "salary_max"} : SuppliedNum(f, k)
                 \/ \E k \in {"location_state", "city", "state", "country"} : SuppliedStr(f, k)
           IN  /\ (terms # {} /\ ~other)
                    => /\ after.textSearch \in terms
                       /\ after.seniority = before.seniority
                       /\ after.jobFunction = before.jobFunction
                       /\ after.remoteType = before.remoteType
                       /\ after.location = before.location
               /\ other => after.textSearch = before.textSearch]_vars

\* C12: when a parse request fails (transport error or non-2xx answer) a
\* non-empty failure explanation is displayed once the request has ended,
\* under both merge policies.
C12_FailureExplained ==
  [][\A r \in ParseFailures :
       ((r.kind = "reject" \/ ~r.ok) /\ ParseResolves(r))
         => Latest'.parseExplanation # ""]_vars

\* C14: one settle, one listing request.  The request with the settled text
\* leaves in the step that runs the Smart Search effect, so the render that
\* commits the setters of that effect, and nothing else, leaves no fetch to
\* run.
C14_OneFetchPerSettle ==
  [][(/\ Render
      /\ variant = Explorer
      /\ DOMAIN queued \ {"loading"} # {}
      /\ Drop(queued, {"loading"}) = SmartMatch(debouncedSearch))
       => "fetchJobs" \notin effects']_vars

\* C15: every change to an input of the query serializer (page, the text the
\* request sends, a facet list, a salary bound, the location fields, the
\* skills) issues a listing request: the render that commits the change of
\* a user's handler issues it in the same step, any other render leaves the
\* fetch effect to run, and when that effect runs the request leaves.  A
\* request carries the serialization of the Filter State of the render
\* whose effect issues it: the last request of a step that of the state the
\* step ends in, and a request of an effect that had been left to run that
\* of the state the step begins in.
C15_FetchOnChangeWithCurrentState ==
  [][LET inputsChanged ==
           \/ << page, seniority, jobFunction, remoteType, salaryMin, salaryMax >>'
                # << page, seniority, jobFunction, remoteType, salaryMin, salaryMax >>
           \/ /\ variant = Explorer
              /\ << debouncedSearch, location, selectedSkills >>'
                   # << debouncedSearch, location, selectedSkills >>
           \/ /\ variant = Classic
              /\ << textSearch, city, country >>' # << textSearch, city, country >>
     IN  /\ (inputsChanged /\ Alive')
              => (Len(inFlight') > Len(inFlight) \/ "fetchJobs" \in effects')
         /\ ("fetchJobs" \in effects /\ effects' = {})
              => Len(inFlight') > Len(inFlight)
         /\ Len(inFlight') > Len(inFlight)
              => /\ inFlight'[Len(inFlight')].params = Serialize'
                 /\ Len(inFlight') > Len(inFlight) + 1
                      => inFlight'[Len(inFlight) + 1].params = Serialize]_vars

\* a facet was ticked on page 1 with a request in flight: the second request
\* carries the facet
C15_Witness ==
  /\ userEvents = 1
  /\ Len(inFlight) = 2
  /\ seniority # << >>
  /\ inFlight[2].params = Serialize
  /\ inFlight[2].params # inFlight[1].params

\* C16: the displayed jobs and the displayed total always come from one
\* response: either both are the initial values, or both are what one body
\* of GET /jobs gives.
C16_JobsAndTotalFromOneResponse ==
  \/ (jobs = << >> /\ total = 0)
  \/ \E b \in JobsBodies \cup {ErrorBody} :
       jobs = JobsOf(b) /\ total = TotalOf(b)

\* a facet changed and both listing requests were answered: the jobs and the
\* total displayed are those of one body
C16_Witness ==
  /\ userEvents = 1
  /\ seniority # << >>
  /\ inFlight = << >>
  /\ jobs = << "j3" >>
  /\ total = 1

\* C17: the displayed jobs and total change only in a step in which a
\* listing request is answered successfully (a 2xx answer with a jobs body);
\* no user action, settle or merge changes them, and no failed answer does.
\* The page shows the values an answer stored with the next render.
C17_ChangeOnlyOnSuccess ==
  [][/\ (Latest'.jobs # Latest.jobs \/ Latest'.total # Latest.total)
          => \E i \in 1..MaxInFlight, b \in JobsBodies :
               FetchResolves(i, Http(TRUE, TRUE, b))
     /\ (jobs' # jobs \/ total' # total) => Render]_vars

\* C18: page is at least 1 in every state; a Previous step happens only
\* above page 1 and a Next step only below page ceil(total / pageSize), so
\* on page 1, on the last page and with total 0 the buttons leave page as
\* it is; each step moves by exactly one page.
C18_PageStaysInRange ==
  /\ [](page >= 1)
  /\ [][/\ (PrevPageExplorer \/ PrevPageClassic)
             => (page > 1 /\ page' = page - 1)
        /\ (NextPageExplorer \/ NextPageClassic)
             => (page < CeilDiv(total, PageSize) /\ total > 0 /\ page' = page + 1)]_vars

\* Next was pressed on page 1 of 2: page 2 is the last page
C18_Witness ==
  /\ userEvents = 1
  /\ total = 37
  /\ page = 2
  /\ page = CeilDiv(total, PageSize)

\* C19: the parameters serialized from the current Filter State, and those of
\* every request in flight, have no empty-string value, and a filter key is
\* among the current parameters only if the field it comes from is not empty.
C19_NoEmptyParameters ==
  /\ \A k \in 1..Len(inFlight) :
       \A i \in 1..Len(inFlight[k].params) : inFlight[k].params[i][2] # ""
  /\ \A params \in {Serialize} :
       \A i \in 1..Len(params) :
         \A key \in {params[i][1]} :
           /\ params[i][2] # ""
           /\ key = "q"
                => (IF variant = Explorer THEN debouncedSearch ELSE textSearch) # ""
           /\ key = "seniority" => seniority # << >>
           /\ key = "function" => jobFunction # << >>
           /\ key = "remote_type" => remoteType # << >>
           /\ key = "salary_min" => salaryMin # ""
           /\ key = "salary_max" => salaryMax # ""
           /\ key = "city" => (IF variant = Explorer THEN location ELSE city) # ""
           /\ key = "state" => location # ""
           /\ key = "country" => country # ""
           /\ key = "skill" => selectedSkills # << >>

\* C20: a listing request carries q only if freeText is not empty when the
\* request is issued: a request has a q parameter only if the search box is
\* not empty in the render whose fetch effect issues it, which is the state
\* the step begins in for an effect that had been left to run and the state
\* the step ends in for the effect of the render of that step.
C20_QOnlyWithFreeText ==
  [][LET HasQ(req) == \E i \in 1..Len(req.params) : req.params[i][1] = "q"
         left == IF "fetchJobs" \in effects THEN 1 ELSE 0
     IN  \A k \in 1..(Len(inFlight') - Len(inFlight)) :
           HasQ(inFlight'[Len(inFlight) + k])
             => IF k <= left THEN textSearch # "" ELSE textSearch' # ""]_vars

\* C21: for each multi-valued facet, the parameters under the facet's key are
\* one per element of the facet list, in the order of the list.
C21_OneParameterPerElement ==
  \A params \in {Serialize} :
    /\ SelectSeq(params, LAMBDA kv : kv[1] = "seniority")
         = [i \in 1..Len(seniority) |-> << "seniority", seniority[i] >>]
    /\ SelectSeq(params, LAMBDA kv : kv[1] = "function")
         = [i \in 1..Len(jobFunction) |-> << "function", jobFunction[i] >>]
    /\ SelectSeq(params, LAMBDA kv : kv[1] = "remote_type")
         = [i \in 1..Len(remoteType) |-> << "remote_type", remoteType[i] >>]

\* two job functions are selected: two function parameters, in that order
C21_Witness ==
  /\ Len(jobFunction) = 2
  /\ jobFunction[1] # jobFunction[2]
  /\ \E i \in 1..(Len(Serialize) - 1) :
       /\ Serialize[i] = << "function", jobFunction[1] >>
       /\ Serialize[i + 1] = << "function", jobFunction[2] >>

\* C22: the location parameters split the composite location on its first
\* comma only: city is the trimmed text before it, state the trimmed text
\* after it with any further comma kept, each emitted only if not empty.
C22_SplitOnFirstComma ==
  \A params \in {Serialize} :
    location # "" =>
      LET commas == { i \in 1..Len(location) : CharAt(location, i) = "," }
          first == IF commas = {} THEN Len(location) + 1
                   ELSE CHOOSE i \in commas : \A j \in commas : i <= j
          cityText == Trim(SubSeq(location, 1, first - 1))
          stateText == IF commas = {} THEN ""
                       ELSE Trim(SubSeq(location, first + 1, Len(location)))
      IN  SelectSeq(params, LAMBDA kv : kv[1] \in {"city", "state"})
            = Opt(cityText # "", "city", cityText)
              \o Opt(stateText # "", "state", stateText)

\* C23: skills are serialized by name, one skill parameter per selected
\* skill in order; the state with the one skill SQL, seniority senior, page 3
\* and nothing else serializes to page=3, the page size, seniority=senior
\* and skill=SQL, with no other key.  The serializer is applied to the
\* Filter State of the page with each selection of skills in its place.
C23_SkillsByName ==
  variant = Explorer =>
    \A skills \in SkillInputs :
      \A params \in { SerializeExplorer([Filters EXCEPT !.selectedSkills = skills],
                                        debouncedSearch) } :
        /\ SelectSeq(params, LAMBDA kv : kv[1] = "skill")
             = [i \in 1..Len(skills) |-> << "skill", skills[i].name >>]
        /\ ( /\ skills = << [id |-> "1", name |-> "SQL"] >>
             /\ seniority = << "senior" >>
             /\ page = 3
             /\ debouncedSearch = "" /\ jobFunction = << >> /\ remoteType = << >>
             /\ salaryMin = "" /\ salaryMax = "" /\ location = "" )
             => params = << << "page", "3" >>, << "page_size", "20" >>,
                            << "seniority", "senior" >>, << "skill", "SQL" >> >>

\* page 3 was opened with the seniority senior selected and the request of
\* that state has left; with the skill SQL the serializer adds skill=SQL
C23_Witness ==
  /\ seniority = << "senior" >>
  /\ page = 3
  /\ location = ""
  /\ Len(inFlight) = 1
  /\ inFlight[1].params = Serialize
  /\ SerializeExplorer([Filters EXCEPT !.selectedSkills =
                                         << [id |-> "1", name |-> "SQL"] >>],
                       debouncedSearch)
       = Serialize \o << << "skill", "SQL" >> >>
  /\ Len(Serialize) = 3

\* C24: the pagination window of a page and a total, with 20 jobs per page
\* and at most 5 buttons, is the range start..end in increasing order, where
\* totalPages = ceil(total / 20), end = min(totalPages, start0 + 4) for
\* start0 = max(1, page - 2), and start is start0, or max(1, end - 4) when
\* start0..end has fewer than 5 pages; for page 1 of 37 jobs it is 1, 2 and
\* for page 7 of 400 jobs it is 5, 6, 7, 8, 9.
C24_WindowRange ==
  \A w \in {PaginationWindow(page, total, 20, 5)} :
    LET totalPages == IF total % 20 = 0 THEN total \div 20 ELSE total \div 20 + 1
        start0 == IF page - 2 > 1 THEN page - 2 ELSE 1
        end == IF totalPages < start0 + 4 THEN totalPages ELSE start0 + 4
        start == IF end - start0 + 1 < 5
                 THEN (IF end - 4 > 1 THEN end - 4 ELSE 1)
                 ELSE start0
    IN  /\ { w[i] : i \in 1..Len(w) } = start..end
        /\ \A i \in 1..(Len(w) - 1) : w[i + 1] = w[i] + 1
        /\ (page = 1 /\ total = 37) => w = << 1, 2 >>
        /\ (page = 7 /\ total = 400) => w = << 5, 6, 7, 8, 9 >>

\* a button of the window was clicked and page 7 of 20 is shown
C24_Witness ==
  /\ userEvents = MaxUserEvents
  /\ page = 7
  /\ total = 400
  /\ PaginationWindow(page, total, 20, 5) = << 5, 6, 7, 8, 9 >>

\* C25: whatever the current page, with fewer pages than the 5 buttons of
\* the window the window is 1, ..., totalPages, and with no page at all it
\* is the empty sequence.
C25_ShortWindow ==
  \A w \in {PaginationWindow(page, total, 20, 5)} :
    \A totalPages \in {CeilDiv(total, 20)} :
      /\ totalPages < 5 => w = [i \in 1..totalPages |-> i]
      /\ totalPages = 0 => w = << >>

\* the second of two buttons was clicked: both are still shown
C25_Witness ==
  /\ userEvents = MaxUserEvents
  /\ total = 37
  /\ page = 2
  /\ PaginationWindow(page, total, 20, 5) = << 1, 2 >>

\* C26: from any state, a clear-filters step ends in the initial empty
\* Filter State: freeText, every facet, the salary bounds, the location
\* fields and the skills empty, page 1, naturalQuery and the explanation
\* empty.  The outcome does not depend on the state before, so a second
\* clear gives the same state.
C26_ClearYieldsEmptyState ==
  [][(ClearFilters \/ ClearAllFilters)
       => /\ Filters' = [ textSearch |-> "", seniority |-> << >>,
                          jobFunction |-> << >>, remoteType |-> << >>,
                          location |-> "", salaryMin |-> "", salaryMax |-> "",
                          city |-> "", country |-> "", selectedSkills |-> << >>,
                          page |-> 1 ]
          /\ naturalQuery' = ""
          /\ parseExplanation' = ""]_vars

\* two facets had been set and the request for them is still in flight when
\* the filters are cleared: the request of the cleared state follows it
C26_Witness ==
  /\ userEvents = 3
  /\ seniority = << >>
  /\ jobFunction = << >>
  /\ textSearch = ""
  /\ page = 1
  /\ Len(inFlight) = 2
  /\ \E i, j \in 1..Len(inFlight[1].params) :
       /\ inFlight[1].params[i][1] = "seniority"
       /\ inFlight[1].params[j][1] = "function"
  /\ \A i \in 1..Len(inFlight[2].params) :
       inFlight[2].params[i][1] \in {"page", "page_size", "q"}

\* C27: a settle whose new debounced text names a vocabulary entry changes
\* one facet, the first of job function, seniority, work arrangement whose
\* vocabulary has the term, to exactly the matched value, and clears
\* freeText; the other two facets, the salary bounds, the location, the
\* skills and the page stay as they were.  The change is the one the setter
\* calls of the Smart Search effect give at the next render.
C27_OneFacetPerMatch ==
  [][(Effects /\ "smartSearch" \in effects
              /\ TermFacet(debouncedSearch)[1] # "none")
       => \A tf \in {TermFacet(debouncedSearch)} :
          \A before \in {Latest} : \A after \in {Latest'} :
            /\ FacetOf(after, tf[1]) = << tf[2] >>
            /\ after.textSearch = ""
            /\ \A n \in {"jobFunction", "seniority", "remoteType"} \ {tf[1]} :
                 FacetOf(after, n) = FacetOf(before, n)
            /\ after.salaryMin = before.salaryMin
            /\ after.salaryMax = before.salaryMax
            /\ after.location = before.location
            /\ after.selectedSkills = before.selectedSkills
            /\ after.page = before.page]_vars

\* "Hybrid" settled on page 3 with a seniority and a location selected: the
\* work arrangement is set and the rest is as before
C27_Witness ==
  /\ debouncedSearch = "Hybrid"
  /\ textSearch = ""
  /\ remoteType = << "hybrid" >>
  /\ seniority = << "senior" >>
  /\ jobFunction = << >>
  /\ location = "Austin, TX"
  /\ page = 3

\* C28: a settle on an empty search box, or on a text that after trimming
\* and lower-casing is no label and no value of any vocabulary, leaves the
\* Filter State as it was: the text stays in freeText and no facet changes.
\* Neither the firing of the timeout nor the Smart Search effect of the
\* render that shows its value calls a setter of the Filter State.
C28_NoMatchNoChange ==
  [][/\ (Settle /\ TermFacet(textSearch)[1] = "none")
          => (LatestFilters' = LatestFilters /\ LatestDebounced' = textSearch)
     /\ (Effects /\ "smartSearch" \in effects
                 /\ TermFacet(debouncedSearch)[1] = "none")
          => LatestFilters' = LatestFilters]_vars

\* "golang" settled: it is the keyword of the search and no facet is set
C28_Witness ==
  /\ debouncedSearch = "golang"
  /\ textSearch = "golang"
  /\ ~timerPending
  /\ jobFunction = << >>
  /\ remoteType = << >>
  /\ \E k \in 1..Len(inFlight) : \E i \in 1..Len(inFlight[k].params) :
       inFlight[k].params[i] = << "q", "golang" >>

\* C29: no error leaves the controller stuck: the step in which a failed
\* listing fetch ends sets the loading flag to false, the step in which a
\* failed parse ends sets the parsing flag to false, and in both the page
\* still renders and takes input afterwards.
C29_FailureLeavesInputEnabled ==
  [][/\ \A i \in 1..MaxInFlight, r \in JobsFailures :
          FetchResolves(i, r)
            => \A after \in {Latest'} :
                 /\ after.loading = FALSE
                 /\ after.jobs # Undefined
                 /\ after.total # UndefinedNum
     /\ \A r \in ParseFailures :
          ParseResolves(r)
            => \A after \in {Latest'} :
                 /\ after.isParsing = FALSE
                 /\ after.jobs # Undefined
                 /\ after.total # UndefinedNum]_vars

\* C30: on the explorer page, whose facets are single-select dropdowns, each
\* of the seniority, jobFunction and remoteType selections holds at most one
\* element in every state.
C30_SingleSelect ==
  variant = Explorer
    => /\ Len(seniority) <= 1
       /\ Len(jobFunction) <= 1
       /\ Len(remoteType) <= 1

\* C31: every element of the seniority, jobFunction and remoteType
\* selections is a value of the facet's vocabulary, in every state.
C31_SelectionsInVocabulary ==
  /\ \A i \in 1..Len(seniority) :
       \E k \in 1..Len(FILTER_OPTIONS_seniority) :
         FILTER_OPTIONS_seniority[k].value = seniority[i]
  /\ \A i \in 1..Len(jobFunction) :
       \E k \in 1..Len(FILTER_OPTIONS_functions) :
         FILTER_OPTIONS_functions[k].value = jobFunction[i]
  /\ \A i \in 1..Len(remoteType) :
       \E k \in 1..Len(FILTER_OPTIONS_remote) :
         FILTER_OPTIONS_remote[k].value = remoteType[i]

\* C32: the loading flag is true in every state in which a listing request
\* is still awaiting its answer.
C32_LoadingWhileInFlight ==
  Len(inFlight) > 0 => loading

\* C33: when a listing request is answered successfully and no other is in
\* flight, the page shown is not beyond the last page of the new results:
\* page <= max(1, ceil(total / pageSize)).
C33_PageWithinResults ==
  [][\A i \in 1..MaxInFlight, b \in JobsBodies :
       (FetchResolves(i, Http(TRUE, TRUE, b)) /\ inFlight' = << >>)
         => Latest'.page <= Max(1, CeilDiv(Latest'.total, PageSize))]_vars

\* C34: once the filters have been cleared and before any further user
\* input, the Filter State stays empty: the answer to a parse request that
\* was submitted before the clear changes no facet, freeText, location or
\* salary bound.  Stated on the answer step: a parse answer that arrives
\* while the Filter State is the empty one and the query box is empty leaves
\* the Filter State empty.
C34_ClearedStaysEmpty ==
  [][\A r \in ParseResponses :
       (/\ ParseResolves(r)
        /\ naturalQuery = ""
        /\ DOMAIN queued = {}
        /\ Filters = [ textSearch |-> "", seniority |-> << >>,
                       jobFunction |-> << >>, remoteType |-> << >>,
                       location |-> "", salaryMin |-> "", salaryMax |-> "",
                       city |-> "", country |-> "", selectedSkills |-> << >>,
                       page |-> 1 ])
         => LatestFilters' = LatestFilters]_vars

\* C35: on the classic page, a step of the user that changes the keyword
\* text, a salary bound, the city, the country or a facet list ends on page
\* 1, and the listing request it issues asks for page 1.  (The step that
\* applies the answer of the parser is not the user's.)
C35_FilterChangeResetsPage ==
  [][(/\ variant = Classic
      /\ userEvents' # userEvents
      /\ << textSearch, salaryMin, salaryMax, city, country,
            seniority, jobFunction, remoteType >>'
           # << textSearch, salaryMin, salaryMax, city, country,
                seniority, jobFunction, remoteType >>)
       => /\ page' = 1
          /\ Len(inFlight') > Len(inFlight)
          /\ inFlight'[Len(inFlight')].params[1] = << "page", "1" >>]_vars

\* a keyword was typed on page 2 while the request for page 2 was still in
\* flight: the request with the keyword asks for page 1
C35_Witness ==
  /\ variant = Classic
  /\ page = 1
  /\ textSearch = "rust"
  /\ Len(inFlight) = 2
  /\ inFlight[1].params = << << "page", "2" >>, << "page_size", "20" >> >>
  /\ inFlight[2].params = << << "page", "1" >>, << "page_size", "20" >>, << "q", "rust" >> >>

\* C36: on the classic page, for each facet list and each value: toggling a
\* selected value gives the list without it, the other elements in their
\* order; toggling an unselected value gives the list with it appended; the
\* result has no duplicate; toggling the value once more gives the selected
\* values there were.  The facet lists themselves hold no duplicate.
C36_ToggleFilter ==
  variant = Classic =>
    \A current \in {seniority, jobFunction, remoteType} :
      /\ \A i, j \in 1..Len(current) : current[i] = current[j] => i = j
      /\ \A value \in SeniorityPicks \cup FunctionPicks \cup RemotePicks \cup {"marketing"} :
           \A toggled \in {ToggleFilter(value, current)} :
             /\ (\E i \in 1..Len(current) : current[i] = value)
                  => toggled = SelectSeq(current, LAMBDA v : v # value)
             /\ (\A i \in 1..Len(current) : current[i] # value)
                  => toggled = current \o << value >>
             /\ \A i, j \in 1..Len(toggled) : toggled[i] = toggled[j] => i = j
             /\ { ToggleFilter(value, toggled)[i] :
                    i \in 1..Len(ToggleFilter(value, toggled)) }
                  = { current[i] : i \in 1..Len(current) }

\* a proposal naming two job functions was merged and the first was
\* unticked: the second is left
C36_Witness ==
  /\ variant = Classic
  /\ userEvents = 3
  /\ jobFunction = << "marketing" >>
  /\ \E k \in 1..Len(inFlight) : \E i \in 1..Len(inFlight[k].params) :
       inFlight[k].params[i] = << "function", "marketing" >>

\* C37: when there is at least one page and the current page is one of
\* them, the pagination window is a run of consecutive page numbers in
\* increasing order that has the current page in it, stays within
\* 1..totalPages and has min(5, totalPages) entries.
C37_WindowAroundCurrent ==
  \A w \in {PaginationWindow(page, total, 20, 5)} :
    \A totalPages \in {CeilDiv(total, 20)} :
      (totalPages >= 1 /\ 1 <= page /\ page <= totalPages)
        => /\ \A i \in 1..(Len(w) - 1) : w[i + 1] = w[i] + 1
           /\ \E i \in 1..Len(w) : w[i] = page
           /\ \A i \in 1..Len(w) : 1 <= w[i] /\ w[i] <= totalPages
           /\ Len(w) = (IF totalPages < 5 THEN totalPages ELSE 5)

\* the last of 7 pages was reached with a button: the window is 3..7
C37_Witness ==
  /\ userEvents = MaxUserEvents
  /\ total = 140
  /\ page = 7
  /\ PaginationWindow(page, total, 20, 5) = << 3, 4, 5, 6, 7 >>

\* C38: submitting an empty or whitespace-only utterance does nothing: no
\* parse request is sent, the parsing flag, the explanation and the Filter
\* State stay as they were, and no listing request is issued.
C38_BlankSubmitIsNoOp ==
  [][\A via \in {"button", "enter"} :
       (SubmitNatural(via) /\ Trim(naturalQuery) = "")
         => /\ parsesInFlight' = parsesInFlight
            /\ isParsing' = isParsing
            /\ parseExplanation' = parseExplanation
            /\ Filters' = Filters
            /\ inFlight' = inFlight]_vars

\* a blank was typed into the query box and Enter pressed: nothing is
\* being parsed
C38_Witness ==
  /\ naturalQuery = " "
  /\ userEvents = 2
  /\ parsesInFlight = 0
  /\ ~isParsing
  /\ parseExplanation = ""
  /\ Filters = [ textSearch |-> "", seniority |-> << >>,
                 jobFunction |-> << >>, remoteType |-> << >>,
                 location |-> "", salaryMin |-> "", salaryMax |-> "",
                 city |-> "", country |-> "", selectedSkills |-> << >>,
                 page |-> 1 ]
  /\ Len(inFlight) = 1
  /\ inFlight[1].params = Serialize

\* C39: on the companies listing, every request that a submit of the search
\* form issues asks for page 1 with the query of the search box; none is
\* built from the page shown before the submit.
C39_SubmitRequestsPageOne ==
  [][HandleSearch
       => \A k \in (Len(inFlight) + 1)..Len(inFlight') :
            inFlight'[k].params = SerializeCompanies(1, textSearch)]_vars
====
